---- MODULE Spec2Model ----
(***************************************************************************)
(* Crafting-feasibility core of walkscape-planner                          *)
(* (src/src/routes/+page.svelte): the level resolver xpToLevel, the skill  *)
(* lookup getSkillLevel, the reverse name lookup                           *)
(* recipeNameToInventoryName and the evaluator calculateCraftingTimes.     *)
(*                                                                         *)
(* JavaScript values are modelled as follows.                              *)
(*   string          a sequence of one-character strings                   *)
(*   optional field  a sequence of length 0 (absent) or 1 (present)        *)
(*   object (map)    a function whose DOMAIN is the set of own keys        *)
(*   number          Num(n) for a finite integer n, Infinity for the       *)
(*                   result of Math.min() on no arguments                  *)
(*   a call          a record with status "returned" or "threw"            *)
(***************************************************************************)
EXTENDS Integers, Sequences, FiniteSets

VARIABLES SKILL_LEVELS, characterData, recipe, inventory, craftingTimes, xpLog,
          rawKey, displayName, lookupName,
          inventoryItems,
          recipes, sortedGroupedRecipes,
          showOnlyCraftable, recipesWithCraftingInfo,
          localStorage, showImportDialog, importText, importError,
          lastOp, beforeReload, lastAccepted,
          wikiRows, pc, tasks, completed, svgs, caught, fetchResult,
          recipesJson, savedFiles

\* the arguments and results of normalizeItemName and recipeNameToInventoryName
nameVars == <<rawKey, displayName, lookupName>>

\* the result of the aggregation
aggVars == <<inventoryItems>>

\* the recipe catalog and its sorted groups
groupVars == <<recipes, sortedGroupedRecipes>>

\* the craftable-only toggle and the displayed recipes with their results
passVars == <<showOnlyCraftable, recipesWithCraftingInfo>>

\* the stored character and the import dialog; lastOp is the operation that
\* ran last and how it ended, beforeReload the character in effect when the
\* page was last reloaded, lastAccepted the record of the last import that
\* was accepted and not followed by a reset
importVars == <<localStorage, showImportDialog, importText, importError,
                lastOp, beforeReload, lastAccepted>>

\* the scraping script: the rows of the wiki table, the position of the
\* script, the state of the asynchronous task of each row, the rows in the
\* order in which their tasks ended, the icons collected so far, whether the
\* catch block ran, the value fetchRecipesFromWiki returns, and the files
\* generateRecipesJson writes
scrapeVars == <<wikiRows, pc, tasks, completed, svgs, caught, fetchResult,
                recipesJson, savedFiles>>

restVars == <<passVars, importVars, scrapeVars>>

vars == <<SKILL_LEVELS, characterData, recipe, inventory, craftingTimes, xpLog,
          nameVars, aggVars, groupVars, restVars>>

(***************************************************************************)
(* Bounds of the model.                                                    *)
(***************************************************************************)
MaxXp == 2
MaxSteps == 2
MaxCalls == 2
MaxQty == 2
MaxMaterials == 2
MaxReqLevel == 2
MaxKeyLen == 3
MaxRawQty == 3
MaxEntries == 2
MaxCatalog == 3
MaxPassCatalog == 2
MaxRows == 3

(***************************************************************************)
(* Strings.                                                                *)
(***************************************************************************)
UpperCase == <<"A","B","C","D","E","F","G","H","I","J","K","L","M",
               "N","O","P","Q","R","S","T","U","V","W","X","Y","Z">>
LowerCase == <<"a","b","c","d","e","f","g","h","i","j","k","l","m",
               "n","o","p","q","r","s","t","u","v","w","x","y","z">>
WhiteSpace == {" "}

toLowerCaseChar(c) ==
  IF \E i \in 1..26 : UpperCase[i] = c
  THEN LowerCase[CHOOSE i \in 1..26 : UpperCase[i] = c]
  ELSE c

\* String.prototype.toLowerCase
toLowerCase(s) == [i \in 1..Len(s) |-> toLowerCaseChar(s[i])]

\* s.replace(/\s+/g, '_'): every maximal run of white space becomes one '_'
RECURSIVE replaceWhiteSpaceRuns(_)
replaceWhiteSpaceRuns(s) ==
  IF s = <<>> THEN <<>>
  ELSE IF Head(s) \in WhiteSpace
       THEN IF Len(s) > 1 /\ s[2] \in WhiteSpace
            THEN replaceWhiteSpaceRuns(Tail(s))
            ELSE <<"_">> \o replaceWhiteSpaceRuns(Tail(s))
       ELSE <<Head(s)>> \o replaceWhiteSpaceRuns(Tail(s))

\* mutant: the name is not lowercased
recipeNameToInventoryNameKeepCase(recipeName) ==
  replaceWhiteSpaceRuns(recipeName)

recipeNameToInventoryName(recipeName) ==
  replaceWhiteSpaceRuns(toLowerCase(recipeName))

toUpperCaseChar(c) ==
  IF \E i \in 1..26 : LowerCase[i] = c
  THEN UpperCase[CHOOSE i \in 1..26 : LowerCase[i] = c]
  ELSE c

\* s.split('_'): the pieces between the underscores, empty pieces included
RECURSIVE split(_)
split(s) ==
  IF s = <<>> THEN <<(<<>>)>>
  ELSE LET rest == split(Tail(s))
       IN IF Head(s) = "_"
          THEN <<(<<>>)>> \o rest
          ELSE <<(<<Head(s)>> \o Head(rest))>> \o Tail(rest)

\* words.join(' ')
RECURSIVE join(_)
join(words) ==
  IF words = <<>> THEN <<>>
  ELSE IF Len(words) = 1 THEN Head(words)
       ELSE Head(words) \o <<" ">> \o join(Tail(words))

\* mutant: the rest of the word is lowercased
capitalizeLowerRest(word) ==
  IF word = <<>> THEN <<>>
  ELSE <<toUpperCaseChar(Head(word))>> \o toLowerCase(Tail(word))

\* word.charAt(0).toUpperCase() + word.slice(1)
capitalize(word) ==
  IF word = <<>> THEN <<>>
  ELSE <<toUpperCaseChar(Head(word))>> \o Tail(word)

\* name.split('_').map(capitalize).join(' ')
titleCase(name) ==
  LET words == split(name)
  IN join([i \in 1..Len(words) |-> capitalize(words[i])])

FineSuffix == <<"_","f","i","n","e">>

\* name.endsWith('_fine')
endsWithFine(name) ==
  /\ Len(name) >= Len(FineSuffix)
  /\ SubSeq(name, Len(name) - Len(FineSuffix) + 1, Len(name)) = FineSuffix

\* name.slice(0, -5)
sliceOffFine(name) == SubSeq(name, 1, Len(name) - Len(FineSuffix))

FinePrefix == <<"F","i","n","e"," ">>

normalizeItemName(name) ==
  IF endsWithFine(name)
  THEN FinePrefix \o titleCase(sliceOffFine(name))
  ELSE titleCase(name)

\* Names used as inputs.
Carpentry == <<"C","a","r","p","e","n","t","r","y">>
carpentry == <<"c","a","r","p","e","n","t","r","y">>
Smithing == <<"S","m","i","t","h","i","n","g">>
smithing == <<"s","m","i","t","h","i","n","g">>
CapitalCoalKey == <<"C","o","a","l">>
coal_fine == <<"c","o","a","l","_","f","i","n","e">>
FineCoal == <<"F","i","n","e"," ","C","o","a","l">>
Coal == <<"C","o","a","l">>
coal == <<"c","o","a","l">>
WoodScrap == <<"W","o","o","d"," ","S","c","r","a","p">>
wood_scrap_fine ==
  <<"w","o","o","d","_","s","c","r","a","p","_","f","i","n","e">>
wood_scrap == <<"w","o","o","d","_","s","c","r","a","p">>
Sawmill == <<"S","a","w","m","i","l","l">>
Ax == <<"A","x">>
ax == <<"a","x">>
Bow == <<"B","o","w">>
Crafting == <<"C","r","a","f","t","i","n","g">>
Stone == <<"S","t","o","n","e">>
WoodenStick == <<"W","o","o","d","e","n"," ","S","t","i","c","k">>
BasicSawmill == <<"B","a","s","i","c"," ","S","a","w","m","i","l","l">>
BasicHatchet == <<"B","a","s","i","c"," ","H","a","t","c","h","e","t">>
CreateABirchPlank == 
  <<"C","r","e","a","t","e"," ","a"," ","B","i","r","c","h"," ","P","l","a","n","k"," ","(","S","c","r","a","p",")">>
MakeABasicHatchet == 
  <<"M","a","k","e"," ","a"," ","B","a","s","i","c"," ","H","a","t","c","h","e","t">>
BirchPlank == <<"B","i","r","c","h"," ","P","l","a","n","k">>

(***************************************************************************)
(* Numbers that may be infinite.                                           *)
(***************************************************************************)
Num(n) == [inf |-> FALSE, n |-> n]
Infinity == [inf |-> TRUE, n |-> 0]

\* Math.min(...xs) of finite integers: Infinity when xs is empty
RECURSIVE MathMin(_)
MathMin(xs) ==
  IF xs = <<>> THEN Infinity
  ELSE LET rest == MathMin(Tail(xs))
       IN IF rest.inf \/ Head(xs) <= rest.n THEN Num(Head(xs)) ELSE rest

\* Math.max(...xs) of finite integers: -Infinity (not modelled) never arises,
\* the mutant that uses it is applied to non-empty lists only
RECURSIVE MathMax(_)
MathMax(xs) ==
  IF xs = <<>> THEN Infinity
  ELSE LET rest == MathMax(Tail(xs))
       IN IF rest.inf \/ Head(xs) >= rest.n THEN Num(Head(xs)) ELSE rest

\* x || 0 on a number: 0 is the only falsy number that arises
OrZero(x) == IF ~x.inf /\ x.n = 0 THEN Num(0) ELSE x

\* x > 0 on a number
GreaterThanZero(x) == x.inf \/ x.n > 0

(***************************************************************************)
(* The experience table and the level resolver.                            *)
(***************************************************************************)
TopLevel == 99

LevelMarks == {2, 3, TopLevel, TopLevel + 1}

\* non-decreasing sequences of n marks
RECURSIVE StepChoices(_)
StepChoices(n) ==
  IF n = 0 THEN {<<>>}
  ELSE {Append(s, m) : s \in StepChoices(n - 1), m \in LevelMarks}

SortedSteps(n) ==
  {s \in StepChoices(n) : \A i \in 1..(n - 1) : s[i] <= s[i + 1]}

\* threshold table: slope per level plus one unit step at each mark;
\* non-decreasing, and its entry for level 1 is 0
Table(slope, steps) ==
  [L \in 1..TopLevel |->
     slope * (L - 1) + Cardinality({i \in 1..Len(steps) : steps[i] <= L})]

Tables == {Table(slope, steps) : slope \in {0, 1}, steps \in SortedSteps(MaxSteps)}

\* mutant: the comparison is strict (xp > threshold)
RECURSIVE xpToLevelFromStrict(_, _)
xpToLevelFromStrict(xp, level) ==
  IF level < 1 THEN 1
  ELSE IF xp > SKILL_LEVELS[level] THEN level
       ELSE xpToLevelFromStrict(xp, level - 1)

xpToLevelStrict(xp) == xpToLevelFromStrict(xp, TopLevel)

\* mutant: the comparison is reversed (xp <= threshold)
RECURSIVE xpToLevelFromReversed(_, _)
xpToLevelFromReversed(xp, level) ==
  IF level < 1 THEN 1
  ELSE IF xp <= SKILL_LEVELS[level] THEN level
       ELSE xpToLevelFromReversed(xp, level - 1)

xpToLevelReversed(xp) == xpToLevelFromReversed(xp, TopLevel)

\* for (level = 99; level >= 1; level--) if (xp >= SKILL_LEVELS[level]) return level; return 1
RECURSIVE xpToLevelFrom(_, _)
xpToLevelFrom(xp, level) ==
  IF level < 1 THEN 1
  ELSE IF xp >= SKILL_LEVELS[level] THEN level
       ELSE xpToLevelFrom(xp, level - 1)

xpToLevel(xp) == xpToLevelFrom(xp, TopLevel)

\* mutant: a skill the character does not have is level 0
getSkillLevelZeroDefault(skillName) ==
  IF skillName \in DOMAIN characterData.skills
  THEN xpToLevel(characterData.skills[skillName])
  ELSE 0

\* characterData.skills[skillName] || 0, then xpToLevel
getSkillLevel(skillName) ==
  LET skillXp == IF skillName \in DOMAIN characterData.skills
                 THEN characterData.skills[skillName]
                 ELSE 0
  IN xpToLevel(skillXp)

\* a derived value that has not been computed
NotComputed == [status |-> "none", error |-> "", value |-> <<>>]

Computed(value) == [status |-> "returned", error |-> "", value |-> value]

Failed(error) == [status |-> "threw", error |-> error, value |-> <<>>]

(***************************************************************************)
(* The crafting feasibility evaluator.                                     *)
(***************************************************************************)
NoCall ==
  [status |-> "none", error |-> "", normal |-> Num(0), fine |-> Num(0),
   canCraftNormal |-> FALSE, canCraftFine |-> FALSE, missingLevel |-> 0]

Returned(normal, fine, canCraftNormal, canCraftFine, missingLevel) ==
  [status |-> "returned", error |-> "", normal |-> normal, fine |-> fine,
   canCraftNormal |-> canCraftNormal, canCraftFine |-> canCraftFine,
   missingLevel |-> missingLevel]

\* reading a property of undefined throws a TypeError
Threw(error) ==
  [status |-> "threw", error |-> error, normal |-> Num(0), fine |-> Num(0),
   canCraftNormal |-> FALSE, canCraftFine |-> FALSE, missingLevel |-> 0]

\* inventory[inventoryName] || { normal: 0, fine: 0 }
Available(inv, inventoryName) ==
  IF inventoryName \in DOMAIN inv
  THEN inv[inventoryName]
  ELSE [normal |-> 0, fine |-> 0]

\* mutant: the ratio is rounded up
NormalRatiosCeil(materials, inv) ==
  [i \in 1..Len(materials) |->
     (Available(inv, recipeNameToInventoryName(materials[i].name)).normal
        + materials[i].amount - 1) \div materials[i].amount]

\* materials.map(material => Math.floor(available.normal / material.amount))
NormalRatios(materials, inv) ==
  [i \in 1..Len(materials) |->
     Available(inv, recipeNameToInventoryName(materials[i].name)).normal
       \div materials[i].amount]

\* materials.map(material => Math.floor(available.fine / material.amount))
FineRatios(materials, inv) ==
  [i \in 1..Len(materials) |->
     Available(inv, recipeNameToInventoryName(materials[i].name)).fine
       \div materials[i].amount]

\* mutant: the missing level is subtracted the wrong way round
LevelGatedSwapped(requiredLevel, currentLevel) ==
  Returned(Num(0), Num(0), FALSE, FALSE, currentLevel - requiredLevel)

\* the result returned when the character lacks the required level
LevelGated(requiredLevel, currentLevel) ==
  Returned(Num(0), Num(0), FALSE, FALSE, requiredLevel - currentLevel)

\* mutant: the largest ratio is taken instead of the smallest
MaterialLimitedMax(materials, inv) ==
  LET normalTimes == MathMax(NormalRatios(materials, inv))
      fineTimes == MathMax(FineRatios(materials, inv))
  IN Returned(OrZero(normalTimes), OrZero(fineTimes),
              GreaterThanZero(normalTimes), GreaterThanZero(fineTimes), 0)

\* the result returned when the character has the required level
MaterialLimited(materials, inv) ==
  LET normalTimes == MathMin(NormalRatios(materials, inv))
      fineTimes == MathMin(FineRatios(materials, inv))
  IN Returned(OrZero(normalTimes), OrZero(fineTimes),
              GreaterThanZero(normalTimes), GreaterThanZero(fineTimes), 0)

\* mutant: a recipe that names a service is never craftable
calculateCraftingTimesServiceGated(r, inv) ==
  IF r.requirements.profession = <<>>
  THEN Threw("TypeError")
  ELSE IF r.requirements.service # <<>>
  THEN Returned(Num(0), Num(0), FALSE, FALSE, 0)
  ELSE
    LET requiredLevel == r.requirements.profession[1].level
        skillName == toLowerCase(r.requirements.profession[1].name)
        currentLevel == getSkillLevel(skillName)
        hasRequiredLevel == currentLevel >= requiredLevel
    IN IF ~hasRequiredLevel
       THEN LevelGated(requiredLevel, currentLevel)
       ELSE MaterialLimited(r.requirements.materials, inv)

calculateCraftingTimes(r, inv) ==
  IF r.requirements.profession = <<>>
  THEN Threw("TypeError")
  ELSE
    LET requiredLevel == r.requirements.profession[1].level
        skillName == toLowerCase(r.requirements.profession[1].name)
        currentLevel == getSkillLevel(skillName)
        hasRequiredLevel == currentLevel >= requiredLevel
    IN IF ~hasRequiredLevel
       THEN LevelGated(requiredLevel, currentLevel)
       ELSE MaterialLimited(r.requirements.materials, inv)

(***************************************************************************)
(* Inputs.                                                                 *)
(***************************************************************************)
NoSteps == [i \in 1..MaxSteps |-> TopLevel + 1]

\* the all-zero table and the table with threshold[L] = L - 1
EvalTables == {Table(slope, NoSteps) : slope \in {0, 1}}

NoSkills == <<>>

SkillSets == {NoSkills} \cup {[k \in {carpentry} |-> x] : x \in 0..MaxXp}

Professions ==
  {<<>>}
  \cup {<<[name |-> n, level |-> l]>> : n \in {Carpentry, Smithing}, l \in 1..MaxReqLevel}

Services == {<<>>, <<Sawmill>>}

Amounts == {1, 2}

Material == [name : {Coal, WoodScrap}, amount : Amounts]

RECURSIVE MaterialLists(_)
MaterialLists(n) ==
  IF n = 0 THEN {<<>>}
  ELSE MaterialLists(n - 1)
       \cup {Append(ms, m) : ms \in {l \in MaterialLists(n - 1) : Len(l) = n - 1},
                             m \in Material}

Recipes ==
  {[name |-> BirchPlank, output |-> BirchPlank,
    requirements |-> [profession |-> p, materials |-> ms, service |-> s]] :
     p \in Professions, ms \in MaterialLists(MaxMaterials), s \in Services}

Quantities == [normal : 0..MaxQty, fine : 0..MaxQty]

\* aggregated inventories keyed by lookup name
Inventories ==
  {<<>>}
  \cup {[k \in {coal} |-> q] : q \in Quantities}
  \cup {[k \in {wood_scrap} |-> [normal |-> MaxQty, fine |-> 0]]}
  \cup {[k \in {coal, wood_scrap} |->
           IF k = coal THEN q ELSE [normal |-> MaxQty, fine |-> 0]] :
          q \in Quantities}

DefaultRecipe ==
  [name |-> BirchPlank, output |-> BirchPlank,
   requirements |-> [profession |-> <<[name |-> Carpentry, level |-> 1]>>,
                     materials |-> <<[name |-> WoodScrap, amount |-> 1]>>,
                     service |-> <<>>]]

(***************************************************************************)
(* String.prototype.localeCompare on letters and spaces, as the default    *)
(* collation orders them: first by the letters regardless of case, a       *)
(* space before every letter and a prefix before its extensions; strings   *)
(* equal in that respect by the first difference of case, lowercase first. *)
(***************************************************************************)
primaryWeight(c) ==
  IF \E i \in 1..26 : LowerCase[i] = toLowerCaseChar(c)
  THEN CHOOSE i \in 1..26 : LowerCase[i] = toLowerCaseChar(c)
  ELSE 0

RECURSIVE comparePrimary(_, _)
comparePrimary(a, b) ==
  IF a = <<>> /\ b = <<>> THEN 0
  ELSE IF a = <<>> THEN -1
  ELSE IF b = <<>> THEN 1
  ELSE IF primaryWeight(Head(a)) < primaryWeight(Head(b)) THEN -1
  ELSE IF primaryWeight(Head(a)) > primaryWeight(Head(b)) THEN 1
  ELSE comparePrimary(Tail(a), Tail(b))

isLowerCaseChar(c) == \E i \in 1..26 : LowerCase[i] = c

RECURSIVE compareCase(_, _)
compareCase(a, b) ==
  IF a = <<>> \/ b = <<>> THEN 0
  ELSE IF Head(a) = Head(b) THEN compareCase(Tail(a), Tail(b))
  ELSE IF isLowerCaseChar(Head(a)) THEN -1
  ELSE 1

\* mutant: comparison of the UTF-16 code units, uppercase before lowercase
RECURSIVE localeCompareCodeUnits(_, _)
localeCompareCodeUnits(a, b) ==
  IF a = <<>> /\ b = <<>> THEN 0
  ELSE IF a = <<>> THEN -1
  ELSE IF b = <<>> THEN 1
  ELSE IF Head(a) = Head(b) THEN localeCompareCodeUnits(Tail(a), Tail(b))
  ELSE IF primaryWeight(Head(a)) = 0 THEN -1
  ELSE IF primaryWeight(Head(b)) = 0 THEN 1
  ELSE IF isLowerCaseChar(Head(a)) /\ ~isLowerCaseChar(Head(b)) THEN 1
  ELSE IF ~isLowerCaseChar(Head(a)) /\ isLowerCaseChar(Head(b)) THEN -1
  ELSE IF primaryWeight(Head(a)) < primaryWeight(Head(b)) THEN -1
  ELSE 1

localeCompare(a, b) ==
  IF comparePrimary(a, b) # 0 THEN comparePrimary(a, b) ELSE compareCase(a, b)

(***************************************************************************)
(* The inventory aggregator (the reactive value inventoryItems).  An       *)
(* object is a sequence of [key, quantity] entries in insertion order,     *)
(* which is the order of Object.entries.  The icon of an item is a lookup  *)
(* in the icon index and is left out.                                      *)
(***************************************************************************)
\* mutant: the normal quantity is not reset for a fine key
rawEntryKeepNormal(name, quantity) ==
  IF endsWithFine(name)
  THEN [name |-> name, baseName |-> sliceOffFine(name),
        normalQuantity |-> quantity, fineQuantity |-> quantity]
  ELSE [name |-> name, baseName |-> name,
        normalQuantity |-> quantity, fineQuantity |-> 0]

\* baseName, normalQuantity and fineQuantity of one raw entry
rawEntry(name, quantity) ==
  IF endsWithFine(name)
  THEN [name |-> name, baseName |-> sliceOffFine(name),
        normalQuantity |-> 0, fineQuantity |-> quantity]
  ELSE [name |-> name, baseName |-> name,
        normalQuantity |-> quantity, fineQuantity |-> 0]

\* mutant: the key is normalized with its suffix
normalizedNameOfWholeKey(e) == normalizeItemName(e.name)

\* const normalizedName = normalizeItemName(baseName)
normalizedNameOf(e) == normalizeItemName(e.baseName)

\* mutant: an existing item is overwritten
accumulateOverwrite(allItems, normalizedName, e) ==
  IF \E i \in 1..Len(allItems) : allItems[i].name = normalizedName
  THEN [i \in 1..Len(allItems) |->
          IF allItems[i].name = normalizedName
          THEN [allItems[i] EXCEPT
                  !.normalQuantity = e.normalQuantity,
                  !.fineQuantity = e.fineQuantity]
          ELSE allItems[i]]
  ELSE Append(allItems,
              [name |-> normalizedName,
               normalQuantity |-> e.normalQuantity,
               fineQuantity |-> e.fineQuantity,
               hasFine |-> e.fineQuantity > 0])

\* if (allItems[normalizedName]) { += } else { allItems[normalizedName] = {...} }
accumulate(allItems, normalizedName, e) ==
  IF \E i \in 1..Len(allItems) : allItems[i].name = normalizedName
  THEN [i \in 1..Len(allItems) |->
          IF allItems[i].name = normalizedName
          THEN [allItems[i] EXCEPT
                  !.normalQuantity = @ + e.normalQuantity,
                  !.fineQuantity = @ + e.fineQuantity]
          ELSE allItems[i]]
  ELSE Append(allItems,
              [name |-> normalizedName,
               normalQuantity |-> e.normalQuantity,
               fineQuantity |-> e.fineQuantity,
               hasFine |-> e.fineQuantity > 0])

\* Object.entries(...).forEach(([name, quantity]) => { ... })
RECURSIVE processEntries(_, _)
processEntries(allItems, entries) ==
  IF entries = <<>> THEN allItems
  ELSE LET e == rawEntry(Head(entries).key, Head(entries).quantity)
       IN processEntries(accumulate(allItems, normalizedNameOf(e), e),
                         Tail(entries))

\* the stable sort of the items by a.name.localeCompare(b.name)
RECURSIVE insertByName(_, _)
insertByName(x, sorted) ==
  IF sorted = <<>> THEN <<x>>
  ELSE IF localeCompare(x.name, Head(sorted).name) < 0
       THEN <<x>> \o sorted
       ELSE <<Head(sorted)>> \o insertByName(x, Tail(sorted))

RECURSIVE sortByName(_)
sortByName(items) ==
  IF items = <<>> THEN <<>>
  ELSE insertByName(items[Len(items)],
                    sortByName(SubSeq(items, 1, Len(items) - 1)))

\* mutant: the bank is read without the guard, Object.entries(undefined) throws
inventoryItemsOfUnguarded(cd) ==
  IF cd.bank = <<>>
  THEN Failed("TypeError")
  ELSE Computed(sortByName(
         processEntries(processEntries(<<>>, cd.inventory), cd.bank[1])))

inventoryItemsOf(cd) ==
  LET fromInventory == processEntries(<<>>, cd.inventory)
      allItems == IF cd.bank # <<>>
                  THEN processEntries(fromInventory, cd.bank[1])
                  ELSE fromInventory
  IN Computed(sortByName(allItems))

\* inventoryItems.forEach(item => inventoryMap[snakeCaseName] = {normal, fine})
RECURSIVE inventoryMapOf(_)
inventoryMapOf(items) ==
  IF items = <<>> THEN <<>>
  ELSE LET before == inventoryMapOf(SubSeq(items, 1, Len(items) - 1))
           item == items[Len(items)]
           snakeCaseName == recipeNameToInventoryName(item.name)
       IN [k \in DOMAIN before \cup {snakeCaseName} |->
             IF k = snakeCaseName
             THEN [normal |-> item.normalQuantity, fine |-> item.fineQuantity]
             ELSE before[k]]

(***************************************************************************)
(* Grouping and ordering of the catalog (groupedRecipes and                *)
(* sortedGroupedRecipes).  The groups are an object keyed by profession    *)
(* name: a sequence of [profession, recipes] in insertion order.           *)
(***************************************************************************)
\* acc[profession].push(recipe), after if (!acc[profession]) acc[profession] = []
pushRecipe(acc, profession, r) ==
  IF \E i \in 1..Len(acc) : acc[i].profession = profession
  THEN [i \in 1..Len(acc) |->
          IF acc[i].profession = profession
          THEN [acc[i] EXCEPT !.recipes = Append(@, r)]
          ELSE acc[i]]
  ELSE Append(acc, [profession |-> profession, recipes |-> <<r>>])

RECURSIVE groupInto(_, _)
groupInto(acc, rs) ==
  IF rs = <<>> THEN acc
  ELSE groupInto(pushRecipe(acc, Head(rs).requirements.profession[1].name, Head(rs)),
                 Tail(rs))

\* reading .name of an absent profession throws a TypeError
groupedRecipesOf(rs) ==
  IF \E i \in 1..Len(rs) : rs[i].requirements.profession = <<>>
  THEN Failed("TypeError")
  ELSE Computed(groupInto(<<>>, rs))

\* the comparator of the sort: level difference, then localeCompare of the names
compareRecipes(a, b) ==
  LET levelDiff == a.requirements.profession[1].level
                     - b.requirements.profession[1].level
  IN IF levelDiff # 0 THEN levelDiff ELSE localeCompare(a.name, b.name)

\* mutant: a recipe is put before the recipes it compares equal to
RECURSIVE insertRecipeBeforeEqual(_, _)
insertRecipeBeforeEqual(x, sorted) ==
  IF sorted = <<>> THEN <<x>>
  ELSE IF compareRecipes(x, Head(sorted)) <= 0
       THEN <<x>> \o sorted
       ELSE <<Head(sorted)>> \o insertRecipeBeforeEqual(x, Tail(sorted))

\* Array.prototype.sort is stable: a recipe goes behind the recipes it
\* compares equal to
RECURSIVE insertRecipe(_, _)
insertRecipe(x, sorted) ==
  IF sorted = <<>> THEN <<x>>
  ELSE IF compareRecipes(x, Head(sorted)) < 0
       THEN <<x>> \o sorted
       ELSE <<Head(sorted)>> \o insertRecipe(x, Tail(sorted))

RECURSIVE sortRecipes(_)
sortRecipes(rs) ==
  IF rs = <<>> THEN <<>>
  ELSE insertRecipe(rs[Len(rs)], sortRecipes(SubSeq(rs, 1, Len(rs) - 1)))

\* Object.keys(groupedRecipes).reduce(... acc[profession] = group.sort(...))
sortGroups(groups) ==
  [i \in 1..Len(groups) |->
     [profession |-> groups[i].profession,
      recipes |-> sortRecipes(groups[i].recipes)]]

\* the two reactive statements in their order; the second does not run when
\* the first has thrown
sortedGroupedRecipesOf(rs) ==
  IF groupedRecipesOf(rs).status = "threw"
  THEN groupedRecipesOf(rs)
  ELSE Computed(sortGroups(groupedRecipesOf(rs).value))

(***************************************************************************)
(* The displayed recipes (the reactive value recipesWithCraftingInfo):     *)
(* every recipe of every sorted group with its evaluation, filtered by     *)
(* the craftable-only toggle.                                              *)
(***************************************************************************)
\* { ...recipe, craftingTimes, canCraft, inventoryMap }
withCraftingInfo(r, inventoryMap) ==
  LET times == calculateCraftingTimes(r, inventoryMap)
  IN [name |-> r.name, output |-> r.output, requirements |-> r.requirements,
      craftingTimes |-> times,
      canCraft |-> GreaterThanZero(times.normal) \/ GreaterThanZero(times.fine),
      inventoryMap |-> inventoryMap]

\* mutant: only the normal count makes a recipe craftable
keepRecipeNormalOnly(toggle, info) ==
  IF ~toggle THEN TRUE
  ELSE GreaterThanZero(info.craftingTimes.normal)
         /\ info.craftingTimes.missingLevel = 0

\* the filter: if (!showOnlyCraftable) return true;
\*             return recipe.canCraft && recipe.craftingTimes.missingLevel === 0
keepRecipe(toggle, info) ==
  IF ~toggle THEN TRUE
  ELSE info.canCraft /\ info.craftingTimes.missingLevel = 0

\* sortedGroupedRecipes[profession].map(...).filter(...)
displayedRecipes(group, items, toggle) ==
  LET infos == [i \in 1..Len(group) |->
                  withCraftingInfo(group[i], inventoryMapOf(items))]
      keep(info) == keepRecipe(toggle, info)
  IN SelectSeq(infos, keep)

\* Object.keys(sortedGroupedRecipes).reduce(...)
recipesWithCraftingInfoOf(groups, items, toggle) ==
  [g \in 1..Len(groups) |->
     [profession |-> groups[g].profession,
      recipes |-> displayedRecipes(groups[g].recipes, items, toggle)]]

\* mutant: the groups themselves are filtered, the recipes that are not
\* displayed are removed from them
groupsAfterDisplayFilteredInPlace(groups, items, toggle) ==
  [g \in 1..Len(groups) |->
     [profession |-> groups[g].profession,
      recipes |->
        LET keep(r) ==
              keepRecipe(toggle, withCraftingInfo(r, inventoryMapOf(items)))
        IN SelectSeq(groups[g].recipes, keep)]]

\* the sorted groups after recipesWithCraftingInfo has run: map and filter
\* return new arrays and the spread copies each recipe
groupsAfterDisplay(groups, items, toggle) == groups

\* the catalog after the grouping has run: reduce pushes the recipes into new
\* arrays, and sort reorders those
catalogAfterGrouping(rs) == rs

(***************************************************************************)
(* Import, reset and reload of the character.  A parsed JSON value is a    *)
(* record [type, fields]: fields holds the [key, value] entries of an      *)
(* object in their order and is empty for every other value.  The texts    *)
(* are the ones below; JSON.parse and JSON.stringify are given by their    *)
(* values on them.                                                         *)
(***************************************************************************)
Undefined == [type |-> "undefined", fields |-> <<>>]
JNull == [type |-> "null", fields |-> <<>>]
JZero == [type |-> "zero", fields |-> <<>>]
JNumber == [type |-> "number", fields |-> <<>>]
JString == [type |-> "string", fields |-> <<>>]
JArray == [type |-> "array", fields |-> <<>>]
JObject(fields) == [type |-> "object", fields |-> fields]

TextEmpty == ""
TextGarbage == "{"
TextNull == "null"
TextNoInventory == "{\"skills\":{}}"
TextSkillsString == "{\"skills\":\"x\",\"inventory\":{}}"
TextInventoryZero == "{\"skills\":{},\"inventory\":0}"
TextSkillsArray == "{\"skills\":[],\"inventory\":{}}"
TextCarpenter == "{\"skills\":{\"carpentry\":1},\"inventory\":{\"coal\":2}}"
TextCarpenterSpaced == "{ \"skills\": {\"carpentry\": 1}, \"inventory\": {\"coal\": 2} }"
TextWithBank == "{\"skills\":{},\"inventory\":{},\"bank\":{\"coal\":1}}"
TextDefault == "{\"skills\":{},\"inventory\":{}}"

ImportTexts ==
  {TextEmpty, TextGarbage, TextNull, TextNoInventory, TextSkillsString,
   TextInventoryZero, TextSkillsArray, TextCarpenter, TextCarpenterSpaced,
   TextWithBank}

Carpenter ==
  JObject(<<[key |-> "skills",
             value |-> JObject(<<[key |-> "carpentry", value |-> JNumber]>>)],
            [key |-> "inventory",
             value |-> JObject(<<[key |-> "coal", value |-> JNumber]>>)]>>)

WithBank ==
  JObject(<<[key |-> "skills", value |-> JObject(<<>>)],
            [key |-> "inventory", value |-> JObject(<<>>)],
            [key |-> "bank",
             value |-> JObject(<<[key |-> "coal", value |-> JNumber]>>)]>>)

SkillsArray ==
  JObject(<<[key |-> "skills", value |-> JArray],
            [key |-> "inventory", value |-> JObject(<<>>)]>>)

\* import character from "../data/character.json"
character ==
  JObject(<<[key |-> "skills", value |-> JObject(<<>>)],
            [key |-> "inventory", value |-> JObject(<<>>)]>>)

JSONparse(text) ==
  CASE text = TextEmpty -> Failed("SyntaxError")
    [] text = TextGarbage -> Failed("SyntaxError")
    [] text = TextNull -> Computed(JNull)
    [] text = TextNoInventory ->
         Computed(JObject(<<[key |-> "skills", value |-> JObject(<<>>)]>>))
    [] text = TextSkillsString ->
         Computed(JObject(<<[key |-> "skills", value |-> JString],
                            [key |-> "inventory", value |-> JObject(<<>>)]>>))
    [] text = TextInventoryZero ->
         Computed(JObject(<<[key |-> "skills", value |-> JObject(<<>>)],
                            [key |-> "inventory", value |-> JZero]>>))
    [] text = TextSkillsArray -> Computed(SkillsArray)
    [] text = TextCarpenter -> Computed(Carpenter)
    [] text = TextCarpenterSpaced -> Computed(Carpenter)
    [] text = TextWithBank -> Computed(WithBank)
    [] text = TextDefault -> Computed(character)

JSONstringify(value) ==
  CASE value = SkillsArray -> TextSkillsArray
    [] value = Carpenter -> TextCarpenter
    [] value = WithBank -> TextWithBank
    [] value = character -> TextDefault

\* the value of a condition: null, undefined, 0 and "" are false
truthy(value) == value.type \notin {"null", "undefined", "zero"}

\* typeof value
typeOf(value) ==
  CASE value.type \in {"null", "array", "object"} -> "object"
    [] value.type \in {"zero", "number"} -> "number"
    [] value.type = "string" -> "string"
    [] value.type = "undefined" -> "undefined"

\* value[key] of a value that is not null or undefined
getProperty(value, key) ==
  IF \E i \in 1..Len(value.fields) : value.fields[i].key = key
  THEN value.fields[CHOOSE i \in 1..Len(value.fields) : value.fields[i].key = key].value
  ELSE Undefined

ErrorSkills == "El JSON debe contener un objeto 'skills'"
ErrorInventory == "El JSON debe contener un objeto 'inventory'"
ErrorInvalid == "JSON inválido. Por favor, verifica el formato."

\* the state importCharacter leaves, of the variables it writes
ImportState(cd, stored, dialog, text, error, status) ==
  [characterData |-> cd, localStorage |-> stored, showImportDialog |-> dialog,
   importText |-> text, importError |-> error, status |-> status]

\* mutant: the parsed record is adopted before it is validated
importCharacterAdoptFirst(cd, stored, dialog, text, quotaExceeded) ==
  LET parsed == JSONparse(text)
      newCharacter == parsed.value
  IN IF parsed.status = "threw" \/ newCharacter.type = "null"
     THEN ImportState(cd, stored, dialog, text, ErrorInvalid, "returned")
     ELSE IF ~truthy(getProperty(newCharacter, "skills"))
               \/ typeOf(getProperty(newCharacter, "skills")) # "object"
     THEN ImportState(newCharacter, stored, dialog, text, ErrorSkills, "returned")
     ELSE IF ~truthy(getProperty(newCharacter, "inventory"))
               \/ typeOf(getProperty(newCharacter, "inventory")) # "object"
     THEN ImportState(newCharacter, stored, dialog, text, ErrorInventory, "returned")
     ELSE IF quotaExceeded
     THEN ImportState(newCharacter, stored, dialog, text, ErrorInvalid, "returned")
     ELSE ImportState(newCharacter, <<JSONstringify(newCharacter)>>, FALSE, "",
                      "", "returned")

\* importCharacter: JSON.parse and a property read of null throw into the
\* catch, as does setItem when the storage quota is exceeded
importCharacter(cd, stored, dialog, text, quotaExceeded) ==
  LET parsed == JSONparse(text)
      newCharacter == parsed.value
  IN IF parsed.status = "threw" \/ newCharacter.type = "null"
     THEN ImportState(cd, stored, dialog, text, ErrorInvalid, "returned")
     ELSE IF ~truthy(getProperty(newCharacter, "skills"))
               \/ typeOf(getProperty(newCharacter, "skills")) # "object"
     THEN ImportState(cd, stored, dialog, text, ErrorSkills, "returned")
     ELSE IF ~truthy(getProperty(newCharacter, "inventory"))
               \/ typeOf(getProperty(newCharacter, "inventory")) # "object"
     THEN ImportState(cd, stored, dialog, text, ErrorInventory, "returned")
     ELSE IF quotaExceeded
     THEN ImportState(cd, stored, dialog, text, ErrorInvalid, "returned")
     ELSE ImportState(newCharacter, <<JSONstringify(newCharacter)>>, FALSE, "",
                      "", "returned")

\* mutant: the stored character is not removed
resetCharacterKeepStored(cd, stored) ==
  [characterData |-> character, localStorage |-> stored]

\* resetCharacter
resetCharacter(cd, stored) ==
  [characterData |-> character, localStorage |-> <<>>]

\* the character in effect after the script of a new page has run
loadCharacter(stored) ==
  IF stored # <<>> /\ stored[1] # ""
  THEN IF JSONparse(stored[1]).status = "threw"
       THEN character
       ELSE JSONparse(stored[1]).value
  ELSE character

(***************************************************************************)
(* The scraping script (the version of scripts/generate-recipes.ts that    *)
(* collects icons).  The icons are an object per kind, of which the keys   *)
(* are modelled: the names that have an icon.                              *)
(***************************************************************************)
Digits == {"0","1","2","3","4","5","6","7","8","9"}

isAlphaNumeric(c) ==
  \/ c \in Digits
  \/ \E i \in 1..26 : LowerCase[i] = c \/ UpperCase[i] = c

\* replace(/_+/g, '_')
RECURSIVE collapseUnderscores(_)
collapseUnderscores(name) ==
  IF Len(name) < 2 THEN name
  ELSE IF name[1] = "_" /\ name[2] = "_"
       THEN collapseUnderscores(Tail(name))
       ELSE <<name[1]>> \o collapseUnderscores(Tail(name))

\* replace(/^_|_$/g, '')
trimUnderscores(name) ==
  LET first == IF name # <<>> /\ name[1] = "_" THEN 2 ELSE 1
      last == IF Len(name) >= first /\ name[Len(name)] = "_"
              THEN Len(name) - 1 ELSE Len(name)
  IN SubSeq(name, first, last)

sanitizeFileName(name) ==
  trimUnderscores(toLowerCase(collapseUnderscores(
    [i \in 1..Len(name) |-> IF isAlphaNumeric(name[i]) THEN name[i] ELSE "_"])))

MaterialsPrefix == <<".","/","m","a","t","e","r","i","a","l","s","/">>
ProfessionsPrefix == <<".","/","p","r","o","f","e","s","s","i","o","n","s","/">>
SvgSuffix == <<".","s","v","g">>

materialIcon(name) == MaterialsPrefix \o sanitizeFileName(name) \o SvgSuffix
professionIcon(name) == ProfessionsPrefix \o sanitizeFileName(name) \o SvgSuffix

\* the icon files that cause a download, in the order of their awaits: the
\* icon of the output, of the profession, of each named material
downloadsOf(row) ==
  (IF row.iconSrc THEN <<[kind |-> "materials", name |-> row.output]>> ELSE <<>>)
  \o (IF row.profession # <<>> /\ row.professionIconSrc
      THEN <<[kind |-> "professions", name |-> row.profession[1]]>> ELSE <<>>)
  \o [i \in 1..Len(SelectSeq(row.materials,
                             LAMBDA m : m.name # <<>> /\ m.iconSrc)) |->
        [kind |-> "materials",
         name |-> SelectSeq(row.materials,
                            LAMBDA m : m.name # <<>> /\ m.iconSrc)[i].name]]

\* the materials pushed for the named links of the materials cell
materialsOf(row) ==
  LET named == SelectSeq(row.materials, LAMBDA m : m.name # <<>>)
  IN [i \in 1..Len(named) |->
        [name |-> named[i].name, amount |-> named[i].amount,
         icon |-> IF named[i].iconSrc THEN <<materialIcon(named[i].name)>> ELSE <<>>]]

\* what the task of a row returns: a recipe in a sequence of length 1, or
\* null as the empty sequence
recipeOf(row) ==
  IF materialsOf(row) = <<>> THEN <<>>
  ELSE <<[name |-> row.name, output |-> row.output,
          requirements |->
            [profession |->
               IF row.profession # <<>>
               THEN <<[name |-> row.profession[1], level |-> row.level,
                       icon |-> professionIcon(row.profession[1])]>>
               ELSE <<>>,
             materials |-> materialsOf(row),
             service |-> row.service]]>>

Pending(downloads) == [status |-> "pending", left |-> downloads, value |-> <<>>]
Resolved(value) == [status |-> "resolved", left |-> <<>>, value |-> value]
Rejected == [status |-> "rejected", left |-> <<>>, value |-> <<>>]

\* the end of a row's task, after its last await
finishTask(row) == IF row.faulty THEN Rejected ELSE Resolved(recipeOf(row))

\* the task of a row up to its first await
startTask(row) ==
  IF row.cells # 10 \/ row.output = <<>> THEN Resolved(<<>>)
  ELSE IF downloadsOf(row) = <<>> THEN finishTask(row)
  ELSE Pending(downloadsOf(row))

\* a download has ended, with the icon or with null
afterDownload(task, row) ==
  IF Len(task.left) = 1 THEN finishTask(row) ELSE Pending(Tail(task.left))

\* the icons after a download of the icon of target has given a file
svgsWith(icons, target) ==
  IF target.kind = "materials"
  THEN [icons EXCEPT !.materials = @ \cup {target.name}]
  ELSE [icons EXCEPT !.professions = @ \cup {target.name}]

\* mutant: the results are collected in the order in which the tasks ended
recipesOfResultsAsCompleted(results, order) ==
  LET RECURSIVE Collect(_)
      Collect(is) ==
        IF is = <<>> THEN <<>>
        ELSE results[Head(is)].value \o Collect(Tail(is))
  IN Collect(order)

\* recipeResults.filter(r => r !== null) of the results of Promise.all, which
\* are in the order of the rows
recipesOfResults(results, order) ==
  LET RECURSIVE Collect(_)
      Collect(i) ==
        IF i > Len(results) THEN <<>>
        ELSE results[i].value \o Collect(i + 1)
  IN Collect(1)

ExampleRecipes ==
  <<[name |-> CreateABirchPlank, output |-> BirchPlank,
     requirements |->
       [profession |-> <<[name |-> Carpentry, level |-> 1,
                          icon |-> professionIcon(Carpentry)]>>,
        materials |-> <<[name |-> WoodScrap, amount |-> 5,
                         icon |-> <<materialIcon(WoodScrap)>>]>>,
        service |-> <<BasicSawmill>>]],
    [name |-> MakeABasicHatchet, output |-> BasicHatchet,
     requirements |->
       [profession |-> <<[name |-> Crafting, level |-> 1,
                          icon |-> professionIcon(Crafting)]>>,
        materials |-> <<[name |-> Stone, amount |-> 2,
                         icon |-> <<materialIcon(Stone)>>],
                        [name |-> WoodenStick, amount |-> 1,
                         icon |-> <<materialIcon(WoodenStick)>>]>>,
        service |-> <<>>]]>>

\* mutant: the catch block returns the icons collected so far
fallbackKeepingIcons(icons) == [recipes |-> ExampleRecipes, svgs |-> icons]

\* the value returned by the catch block
fallback(icons) ==
  [recipes |-> ExampleRecipes,
   svgs |-> [materials |-> {}, professions |-> {}]]

MaterialsDir ==
  <<"s","r","c","/","l","i","b","/","a","s","s","e","t","s","/",
    "m","a","t","e","r","i","a","l","s","/">>
ProfessionsDir ==
  <<"s","r","c","/","l","i","b","/","a","s","s","e","t","s","/",
    "p","r","o","f","e","s","s","i","o","n","s","/">>
IconIndexPath ==
  <<"s","r","c","/","l","i","b","/","a","s","s","e","t","s","/",
    "i","c","o","n","s",".","j","s","o","n">>

\* the files written by saveSVGsToFile
saveSVGsToFile(icons) ==
  {MaterialsDir \o sanitizeFileName(n) \o SvgSuffix : n \in icons.materials}
  \cup {ProfessionsDir \o sanitizeFileName(n) \o SvgSuffix : n \in icons.professions}
  \cup {IconIndexPath}

\* the variables of a component that a specification does not exercise
IdleName == rawKey = <<>> /\ displayName = <<>> /\ lookupName = <<>>

IdleAgg == inventoryItems = NotComputed

IdleGroup == recipes = <<>> /\ sortedGroupedRecipes = NotComputed

IdlePass == showOnlyCraftable = FALSE /\ recipesWithCraftingInfo = NotComputed

IdleImport ==
  /\ localStorage = <<>>
  /\ showImportDialog = FALSE
  /\ importText = ""
  /\ importError = ""
  /\ lastOp = [op |-> "none", status |-> "returned"]
  /\ beforeReload = <<>>
  /\ lastAccepted = <<>>

IdleScrape ==
  /\ wikiRows = <<>>
  /\ pc = "idle"
  /\ tasks = <<>>
  /\ completed = <<>>
  /\ svgs = [materials |-> {}, professions |-> {}]
  /\ caught = FALSE
  /\ fetchResult = NotComputed
  /\ recipesJson = <<>>
  /\ savedFiles = {}

IdleRest == IdlePass /\ IdleImport /\ IdleScrape

(***************************************************************************)
(* Specification of the evaluator: one call on inputs drawn in Init.       *)
(***************************************************************************)
InitEval ==
  /\ SKILL_LEVELS \in EvalTables
  /\ characterData \in {[skills |-> s] : s \in SkillSets}
  /\ recipe \in Recipes
  /\ inventory \in Inventories
  /\ craftingTimes = NoCall
  /\ xpLog = <<>>
  /\ IdleName /\ IdleAgg /\ IdleGroup
  /\ IdleRest

Evaluate ==
  /\ craftingTimes.status = "none"
  /\ craftingTimes' = calculateCraftingTimes(recipe, inventory)
  /\ UNCHANGED <<SKILL_LEVELS, characterData, recipe, inventory, xpLog>>
  /\ UNCHANGED <<nameVars, aggVars, groupVars>>
  /\ UNCHANGED restVars

NextEval == Evaluate

SpecEval == InitEval /\ [][NextEval]_vars

(***************************************************************************)
(* Specification of the level resolver: calls on a table drawn in Init.    *)
(***************************************************************************)
XpInputs ==
  (-1..MaxXp)
  \cup {SKILL_LEVELS[L] - d : L \in {1, 2, 3, TopLevel - 1, TopLevel}, d \in {0, 1}}

InitLevel ==
  /\ SKILL_LEVELS \in Tables
  /\ characterData = [skills |-> NoSkills]
  /\ recipe = DefaultRecipe
  /\ inventory = <<>>
  /\ craftingTimes = NoCall
  /\ xpLog = <<>>
  /\ IdleName /\ IdleAgg /\ IdleGroup
  /\ IdleRest

ResolveLevel ==
  /\ Len(xpLog) < MaxCalls
  /\ \E xp \in XpInputs :
       xpLog' = Append(xpLog, [xp |-> xp, level |-> xpToLevel(xp)])
  /\ UNCHANGED <<SKILL_LEVELS, characterData, recipe, inventory, craftingTimes>>
  /\ UNCHANGED <<nameVars, aggVars, groupVars>>
  /\ UNCHANGED restVars

NextLevel == ResolveLevel

SpecLevel == InitLevel /\ [][NextLevel]_vars

(***************************************************************************)
(* What the claims speak of, stated on the inputs and not through the      *)
(* operators above.                                                        *)
(***************************************************************************)
Evaluated == craftingTimes.status # "none"

HasProfession == recipe.requirements.profession # <<>>

RequiredLevel == recipe.requirements.profession[1].level

\* the key of characterData.skills that the recipe's profession refers to
SkillKey ==
  CASE recipe.requirements.profession[1].name = Carpentry -> carpentry
    [] recipe.requirements.profession[1].name = Smithing -> smithing

ProfessionKnown == SkillKey \in DOMAIN characterData.skills

SkillXp == IF ProfessionKnown THEN characterData.skills[SkillKey] ELSE 0

\* the highest level whose threshold is at most xp, 1 when there is none
LevelFor(xp) ==
  IF \E L \in 1..TopLevel : SKILL_LEVELS[L] <= xp
  THEN CHOOSE L \in 1..TopLevel :
         /\ SKILL_LEVELS[L] <= xp
         /\ \A M \in (L + 1)..TopLevel : SKILL_LEVELS[M] > xp
  ELSE 1

CurrentLevel == LevelFor(SkillXp)

LevelGatePasses == HasProfession /\ CurrentLevel >= RequiredLevel

LevelGateFails == HasProfession /\ CurrentLevel < RequiredLevel

Materials == recipe.requirements.materials

\* the key of the aggregated inventory that a material name refers to
ExpectedKey(name) ==
  CASE name = Coal -> coal
    [] name = WoodScrap -> wood_scrap

Matched(i) == ExpectedKey(Materials[i].name) \in DOMAIN inventory

HaveNormal(i) ==
  IF Matched(i) THEN inventory[ExpectedKey(Materials[i].name)].normal ELSE 0

HaveFine(i) ==
  IF Matched(i) THEN inventory[ExpectedKey(Materials[i].name)].fine ELSE 0

\* k = floor(have / need)
IsFloor(k, have, need) == k * need <= have /\ have < (k + 1) * need

ZeroResult ==
  /\ craftingTimes.status = "returned"
  /\ craftingTimes.normal = Num(0)
  /\ craftingTimes.fine = Num(0)
  /\ ~craftingTimes.canCraftNormal
  /\ ~craftingTimes.canCraftFine

\* C1: when the recipe has materials and the character has the required
\* level, normal is the least of floor(normalQuantity / amount) over the
\* materials and fine the least of floor(fineQuantity / amount), the
\* quantities being those the inventory holds under the material's name.
C1_FeasibilityFloor ==
  (Evaluated /\ LevelGatePasses /\ Materials # <<>>) =>
    /\ craftingTimes.status = "returned"
    /\ ~craftingTimes.normal.inf
    /\ ~craftingTimes.fine.inf
    /\ \E i \in 1..Len(Materials) :
         IsFloor(craftingTimes.normal.n, HaveNormal(i), Materials[i].amount)
    /\ \A i \in 1..Len(Materials) :
         craftingTimes.normal.n * Materials[i].amount <= HaveNormal(i)
    /\ \E i \in 1..Len(Materials) :
         IsFloor(craftingTimes.fine.n, HaveFine(i), Materials[i].amount)
    /\ \A i \in 1..Len(Materials) :
         craftingTimes.fine.n * Materials[i].amount <= HaveFine(i)

\* a call on two different materials where the scarcer one decides
C1_Witness ==
  /\ Evaluated /\ LevelGatePasses
  /\ Len(Materials) = 2
  /\ Materials[1].name = WoodScrap /\ Materials[2].name = Coal
  /\ Materials[2].amount = 2
  /\ HaveNormal(1) = 2 /\ HaveNormal(2) = 2 /\ HaveFine(2) = 2
  /\ craftingTimes.normal = Num(1)
  /\ craftingTimes.fine = Num(0)

\* C2: a recipe with no materials whose level gate passes gets normal = 0,
\* fine = 0 and canCraftNormal = canCraftFine = FALSE.
C2_EmptyMaterialsNotCraftable ==
  (Evaluated /\ LevelGatePasses /\ Materials = <<>>) => ZeroResult

\* C3: when the character's level is below the required level the result
\* is zero in both tiers and missingLevel = requiredLevel - currentLevel > 0,
\* whatever the inventory holds.
C3_LevelGateShortCircuit ==
  (Evaluated /\ LevelGateFails) =>
    /\ ZeroResult
    /\ craftingTimes.missingLevel = RequiredLevel - CurrentLevel
    /\ craftingTimes.missingLevel > 0

\* a gated call whose materials the inventory would cover
C3_Witness ==
  /\ Evaluated /\ LevelGateFails
  /\ ProfessionKnown
  /\ Len(Materials) = 1
  /\ HaveNormal(1) >= Materials[1].amount
  /\ HaveFine(1) >= Materials[1].amount
  /\ craftingTimes.missingLevel = 1

\* C4: a recipe without a profession requirement is unlocked: missingLevel
\* is 0 and the counts are those the materials give.
C4_NoProfessionUnlocked ==
  (Evaluated /\ ~HasProfession) =>
    /\ craftingTimes.status = "returned"
    /\ craftingTimes.missingLevel = 0
    /\ (Materials # <<>> =>
          /\ ~craftingTimes.normal.inf
          /\ \E i \in 1..Len(Materials) :
               IsFloor(craftingTimes.normal.n, HaveNormal(i), Materials[i].amount)
          /\ \A i \in 1..Len(Materials) :
               craftingTimes.normal.n * Materials[i].amount <= HaveNormal(i))

C6_EvaluatorTotal == Evaluated => craftingTimes.status = "returned"

\* C7: when the level gate passes and some material has no entry in the
\* inventory, normal and fine are both 0.
C7_UnmatchedMaterialIsZero ==
  (Evaluated /\ LevelGatePasses /\ \E i \in 1..Len(Materials) : ~Matched(i)) =>
    /\ craftingTimes.status = "returned"
    /\ craftingTimes.normal = Num(0)
    /\ craftingTimes.fine = Num(0)

\* one material unmatched while the other is covered in both tiers
C7_Witness ==
  /\ Evaluated /\ LevelGatePasses
  /\ Len(Materials) = 2
  /\ Matched(1) /\ ~Matched(2)
  /\ HaveNormal(1) >= Materials[1].amount
  /\ HaveFine(1) >= Materials[1].amount
  /\ craftingTimes.normal = Num(0)
  /\ craftingTimes.fine = Num(0)

\* C8: every returned result has non-negative integer counts and missing
\* level, canCraftNormal <=> normal > 0, canCraftFine <=> fine > 0, and
\* missingLevel > 0 only with normal = fine = 0.
C8_ResultWellFormed ==
  craftingTimes.status = "returned" =>
    /\ ~craftingTimes.normal.inf /\ craftingTimes.normal.n >= 0
    /\ ~craftingTimes.fine.inf /\ craftingTimes.fine.n >= 0
    /\ craftingTimes.missingLevel >= 0
    /\ craftingTimes.canCraftNormal <=> craftingTimes.normal.n > 0
    /\ craftingTimes.canCraftFine <=> craftingTimes.fine.n > 0
    /\ (craftingTimes.missingLevel > 0 =>
          craftingTimes.normal = Num(0) /\ craftingTimes.fine = Num(0))

\* C9: every level returned is in 1..99 and is the highest level whose
\* threshold is at most xp, or 1 when no threshold is (negative xp).
C9_LevelInRangeAndHighest ==
  \A i \in 1..Len(xpLog) :
    /\ xpLog[i].level \in 1..99
    /\ IF \E L \in 1..TopLevel : SKILL_LEVELS[L] <= xpLog[i].xp
       THEN /\ SKILL_LEVELS[xpLog[i].level] <= xpLog[i].xp
            /\ \A M \in (xpLog[i].level + 1)..TopLevel :
                 SKILL_LEVELS[M] > xpLog[i].xp
       ELSE xpLog[i].level = 1

\* a negative xp resolved to 1 and the top threshold of a rising table
\* resolved to 99
C9_Witness ==
  /\ Len(xpLog) = 2
  /\ xpLog[1].xp < 0 /\ xpLog[1].level = 1
  /\ xpLog[2].xp = SKILL_LEVELS[TopLevel] /\ xpLog[2].level = 99
  /\ SKILL_LEVELS[TopLevel - 1] < SKILL_LEVELS[TopLevel]

\* C10: of two resolved xp the smaller never gets the higher level.
C10_LevelMonotone ==
  \A i, j \in 1..Len(xpLog) :
    xpLog[i].xp <= xpLog[j].xp => xpLog[i].level <= xpLog[j].level

\* two xp in a table with a plateau, the larger resolved to the plateau's top
C10_Witness ==
  /\ Len(xpLog) = 2
  /\ SKILL_LEVELS[2] = SKILL_LEVELS[3]
  /\ xpLog[1].xp < xpLog[2].xp
  /\ xpLog[1].level = 1
  /\ xpLog[2].level = TopLevel - 1

StrictlyIncreasing == \A L \in 1..(TopLevel - 1) : SKILL_LEVELS[L] < SKILL_LEVELS[L + 1]

\* C11 as stated: on every table of the data model (non-decreasing, 0 at
\* level 1) the threshold of level L resolves to L and, for L > 1, one xp
\* less resolves to L - 1.
C11_LevelBoundary ==
  \A i \in 1..Len(xpLog) : \A L \in 1..TopLevel :
    /\ xpLog[i].xp = SKILL_LEVELS[L] => xpLog[i].level = L
    /\ (L > 1 /\ xpLog[i].xp = SKILL_LEVELS[L] - 1) => xpLog[i].level = L - 1

\* C11 amended: the same on every table that is strictly increasing in level.
C11_LevelBoundaryStrictTable ==
  StrictlyIncreasing =>
    \A i \in 1..Len(xpLog) : \A L \in 1..TopLevel :
      /\ xpLog[i].xp = SKILL_LEVELS[L] => xpLog[i].level = L
      /\ (L > 1 /\ xpLog[i].xp = SKILL_LEVELS[L] - 1) => xpLog[i].level = L - 1

\* on a strictly increasing table, the threshold of level 3 resolved to 3
\* and one xp less resolved to 2
C11_Witness ==
  /\ StrictlyIncreasing
  /\ Len(xpLog) = 2
  /\ xpLog[1].xp = SKILL_LEVELS[3] /\ xpLog[1].level = 3
  /\ xpLog[2].xp = SKILL_LEVELS[3] - 1 /\ xpLog[2].level = 2

(***************************************************************************)
(* Specification of the name conversions: a raw key drawn in Init is       *)
(* normalized, and the display name is converted back to a lookup name.    *)
(***************************************************************************)
KeyChars == {"a", "b", "B", "_"}

RECURSIVE KeysOfLength(_)
KeysOfLength(n) ==
  IF n = 0 THEN {<<>>}
  ELSE {Append(k, c) : k \in KeysOfLength(n - 1), c \in KeyChars}

BaseKeys == UNION {KeysOfLength(n) : n \in 0..MaxKeyLen}

RawKeys == BaseKeys \cup {k \o FineSuffix : k \in BaseKeys}

InitName ==
  /\ rawKey \in RawKeys
  /\ displayName = <<>>
  /\ lookupName = <<>>
  /\ SKILL_LEVELS = Table(1, NoSteps)
  /\ characterData = [skills |-> NoSkills]
  /\ recipe = DefaultRecipe
  /\ inventory = <<>>
  /\ craftingTimes = NoCall
  /\ xpLog = <<>>
  /\ IdleAgg /\ IdleGroup
  /\ IdleRest

\* displayName and lookupName hold the result as an optional value
Normalize ==
  /\ displayName = <<>>
  /\ displayName' = <<normalizeItemName(rawKey)>>
  /\ UNCHANGED <<SKILL_LEVELS, characterData, recipe, inventory, craftingTimes, xpLog>>
  /\ UNCHANGED <<rawKey, lookupName, aggVars, groupVars>>
  /\ UNCHANGED restVars

Denormalize ==
  /\ displayName # <<>>
  /\ lookupName = <<>>
  /\ lookupName' = <<recipeNameToInventoryName(displayName[1])>>
  /\ UNCHANGED <<SKILL_LEVELS, characterData, recipe, inventory, craftingTimes, xpLog>>
  /\ UNCHANGED <<rawKey, displayName, aggVars, groupVars>>
  /\ UNCHANGED restVars

NextName == Normalize \/ Denormalize

SpecName == InitName /\ [][NextName]_vars

\* the upper-case form of a character of the keys
UpperOf(c) == CASE c = "a" -> "A" [] c = "b" -> "B" [] OTHER -> c

\* the display form of a suffix-free key, position by position: an
\* underscore becomes a space, the first character of a word is uppercased,
\* every other character is kept
DisplayAt(k, i) ==
  IF k[i] = "_" THEN " "
  ELSE IF i = 1 \/ k[i - 1] = "_" THEN UpperOf(k[i])
       ELSE k[i]

DisplayOf(k) == [i \in 1..Len(k) |-> DisplayAt(k, i)]

HasFineSuffix(k) == \E b \in BaseKeys : k = b \o FineSuffix

BaseOf(k) == CHOOSE b \in BaseKeys : k = b \o FineSuffix

\* C15: a key ending in _fine normalizes to "Fine " followed by the display
\* form of the rest (words joined by single spaces, first character of each
\* uppercased, the others unchanged); any other key to its display form.
C15_NormalizeItemName ==
  displayName # <<>> =>
    displayName[1] =
      (IF HasFineSuffix(rawKey)
       THEN <<"F","i","n","e"," ">> \o DisplayOf(BaseOf(rawKey))
       ELSE DisplayOf(rawKey))

\* a_b_fine normalized to "Fine A B"
C15_Witness ==
  /\ rawKey = <<"a","_","b","_","f","i","n","e">>
  /\ displayName = << <<"F","i","n","e"," ","A"," ","B">> >>

\* lowercase words joined by single underscores, without the fine suffix
WellFormedKey(k) ==
  /\ k # <<>>
  /\ \A i \in 1..Len(k) : k[i] \in {"a", "b", "_"}
  /\ k[1] # "_" /\ k[Len(k)] # "_"
  /\ \A i \in 1..(Len(k) - 1) : ~(k[i] = "_" /\ k[i + 1] = "_")
  /\ ~HasFineSuffix(k)

\* C16: for a key of lowercase words joined by single underscores, without
\* the fine suffix, converting its display name back gives the key.
C16_ReverseLookupRoundTrip ==
  (lookupName # <<>> /\ WellFormedKey(rawKey)) => lookupName[1] = rawKey

\* the two-word key a_b went to "A B" and back
C16_Witness ==
  /\ rawKey = <<"a","_","b">>
  /\ displayName = << <<"A"," ","B">> >>
  /\ lookupName = << rawKey >>

(***************************************************************************)
(* Specification of the aggregator: a character record drawn in Init is    *)
(* aggregated, and the lookup map of the evaluator is built from the       *)
(* result.                                                                 *)
(***************************************************************************)
AggKeys == {coal, coal_fine, CapitalCoalKey, wood_scrap}

RawEntries == [key : AggKeys, quantity : 0..MaxRawQty]

RECURSIVE EntryLists(_)
EntryLists(n) ==
  IF n = 0 THEN {<<>>}
  ELSE EntryLists(n - 1)
       \cup {Append(es, e) :
               es \in {l \in EntryLists(n - 1) : Len(l) = n - 1},
               e \in RawEntries}

\* the keys of an object are distinct
DistinctKeys(es) ==
  \A i, j \in 1..Len(es) : i # j => es[i].key # es[j].key

InventoryObjects == {es \in EntryLists(MaxEntries) : DistinctKeys(es)}

\* the bank is absent, empty or holds one entry
BankChoices == {<<>>} \cup {<<es>> : es \in EntryLists(1)}

AggCharacters ==
  {[skills |-> NoSkills, inventory |-> inv, bank |-> b] :
     inv \in InventoryObjects, b \in BankChoices}

InitAgg ==
  /\ characterData \in AggCharacters
  /\ inventoryItems = NotComputed
  /\ inventory = <<>>
  /\ SKILL_LEVELS = Table(1, NoSteps)
  /\ recipe = DefaultRecipe
  /\ craftingTimes = NoCall
  /\ xpLog = <<>>
  /\ IdleName /\ IdleGroup
  /\ IdleRest

Aggregate ==
  /\ inventoryItems.status = "none"
  /\ inventoryItems' = inventoryItemsOf(characterData)
  /\ UNCHANGED <<SKILL_LEVELS, characterData, recipe, inventory, craftingTimes, xpLog>>
  /\ UNCHANGED <<nameVars, groupVars>>
  /\ UNCHANGED restVars

BuildInventoryMap ==
  /\ inventoryItems.status = "returned"
  /\ inventory' = inventoryMapOf(inventoryItems.value)
  /\ UNCHANGED <<SKILL_LEVELS, characterData, recipe, craftingTimes, xpLog>>
  /\ UNCHANGED <<nameVars, aggVars, groupVars>>
  /\ UNCHANGED restVars

NextAgg == Aggregate \/ BuildInventoryMap

SpecAgg == InitAgg /\ [][NextAgg]_vars

(***************************************************************************)
(* Claims about the aggregator                                             *)
(***************************************************************************)
Aggregated == inventoryItems.status = "returned"

BankPresent == characterData.bank # <<>>

\* every raw entry of the character, inventory first
AllRawEntries ==
  characterData.inventory
    \o (IF BankPresent THEN characterData.bank[1] ELSE <<>>)

\* the key carries the fine suffix
IsFineKey(key) == key = coal_fine

\* the normalized base name of a raw key
NameOfKey(key) ==
  CASE key = coal -> Coal
    [] key = coal_fine -> Coal
    [] key = CapitalCoalKey -> Coal
    [] key = wood_scrap -> WoodScrap

DisplayNames == {Coal, WoodScrap, FineCoal}

RECURSIVE SumQuantities(_, _, _)
SumQuantities(es, N, fine) ==
  IF es = <<>> THEN 0
  ELSE (IF NameOfKey(Head(es).key) = N /\ IsFineKey(Head(es).key) = fine
        THEN Head(es).quantity ELSE 0)
       + SumQuantities(Tail(es), N, fine)

ItemsNamed(N) ==
  {i \in 1..Len(inventoryItems.value) : inventoryItems.value[i].name = N}

AggregatedNormal(N) ==
  IF ItemsNamed(N) = {} THEN 0
  ELSE inventoryItems.value[CHOOSE i \in ItemsNamed(N) : TRUE].normalQuantity

AggregatedFine(N) ==
  IF ItemsNamed(N) = {} THEN 0
  ELSE inventoryItems.value[CHOOSE i \in ItemsNamed(N) : TRUE].fineQuantity

\* C12: for every normalized name N the aggregated normalQuantity is the sum
\* of the quantities of the inventory and bank keys without the fine suffix
\* whose normalized base name is N, and the aggregated fineQuantity is the
\* sum over the keys with the fine suffix.
C12_AggregationAdditive ==
  Aggregated =>
    \A N \in DisplayNames :
      /\ AggregatedNormal(N) = SumQuantities(AllRawEntries, N, FALSE)
      /\ AggregatedFine(N) = SumQuantities(AllRawEntries, N, TRUE)

\* coal: 2 and coal_fine: 1 in the inventory and coal: 3 in the bank give
\* Coal with 5 normal and 1 fine
C12_Witness ==
  /\ Aggregated
  /\ characterData.inventory
       = <<[key |-> coal, quantity |-> 2], [key |-> coal_fine, quantity |-> 1]>>
  /\ characterData.bank = << <<[key |-> coal, quantity |-> 3]>> >>
  /\ AggregatedNormal(Coal) = 5
  /\ AggregatedFine(Coal) = 1

\* C13: the aggregated inventory holds exactly one entry per distinct
\* normalized base name of the inventory and bank keys; a key and its fine
\* variant feed the two counters of one entry.
C13_OneEntryPerName ==
  Aggregated =>
    /\ \A N \in DisplayNames : Cardinality(ItemsNamed(N)) <= 1
    /\ {inventoryItems.value[i].name : i \in 1..Len(inventoryItems.value)}
         = {NameOfKey(AllRawEntries[i].key) : i \in 1..Len(AllRawEntries)}

\* coal and coal_fine, both held, end in the one entry Coal
C13_Witness ==
  /\ Aggregated
  /\ characterData.inventory
       = <<[key |-> coal, quantity |-> 1], [key |-> coal_fine, quantity |-> 2]>>
  /\ ~BankPresent
  /\ inventoryItems.value
       = <<[name |-> Coal, normalQuantity |-> 1, fineQuantity |-> 2,
            hasFine |-> FALSE]>>

OnlyFineCoal ==
  /\ Aggregated
  /\ characterData.inventory = <<[key |-> coal_fine, quantity |-> 3]>>
  /\ characterData.bank \in {<<>>, << <<>> >>}

\* C14 as stated: a character whose only inventory key is coal_fine with
\* quantity 3 and an empty bank aggregates to an entry named "Fine Coal" with
\* normalQuantity 0 and fineQuantity 3.
C14_FineCoalEntry ==
  OnlyFineCoal =>
    /\ AggregatedNormal(FineCoal) = 0
    /\ AggregatedFine(FineCoal) = 3
    /\ ItemsNamed(FineCoal) # {}

\* C14 amended: the suffix is removed before the key is normalized, so the
\* one entry is named "Coal", with normalQuantity 0 and fineQuantity 3.
C14_CoalEntryWithFineCount ==
  OnlyFineCoal =>
    inventoryItems.value
      = <<[name |-> Coal, normalQuantity |-> 0, fineQuantity |-> 3,
           hasFine |-> TRUE]>>

C14_Witness ==
  /\ OnlyFineCoal
  /\ characterData.bank = << <<>> >>
  /\ AggregatedFine(Coal) = 3

\* C17: a character without a bank aggregates to the result of the same
\* character with an empty bank, and the aggregation does not fail.
C17_AbsentBankIsEmptyBank ==
  (inventoryItems.status # "none" /\ ~BankPresent) =>
    /\ Aggregated
    /\ inventoryItems
         = inventoryItemsOf([characterData EXCEPT !.bank = << <<>> >>])

C17_Witness ==
  /\ Aggregated
  /\ ~BankPresent
  /\ characterData.inventory
       = <<[key |-> wood_scrap, quantity |-> 2], [key |-> coal, quantity |-> 1]>>
  /\ inventoryItems.value
       = <<[name |-> Coal, normalQuantity |-> 1, fineQuantity |-> 0,
            hasFine |-> FALSE],
           [name |-> WoodScrap, normalQuantity |-> 2, fineQuantity |-> 0,
            hasFine |-> FALSE]>>

\* the lookup map is built from the aggregated items
MapBuilt == Aggregated /\ inventory = inventoryMapOf(inventoryItems.value)
             /\ (inventory # <<>> \/ inventoryItems.value = <<>>)

\* a lowercase key of the character is found again in the lookup map, with
\* the aggregated quantities of its name
RoundTripLookup ==
  MapBuilt =>
    \A i \in 1..Len(AllRawEntries) :
      LET key == AllRawEntries[i].key
      IN key \in {coal, wood_scrap} =>
           /\ key \in DOMAIN inventory
           /\ inventory[key].normal
                = SumQuantities(AllRawEntries, NameOfKey(key), FALSE)
           /\ inventory[key].fine
                = SumQuantities(AllRawEntries, NameOfKey(key), TRUE)

(***************************************************************************)
(* Specification of the grouping: a catalog drawn in Init is grouped and   *)
(* each group is sorted.                                                   *)
(***************************************************************************)
CatalogProfessions ==
  {<<>>,
   <<[name |-> Carpentry, level |-> 1]>>,
   <<[name |-> Carpentry, level |-> 2]>>,
   <<[name |-> Smithing, level |-> 1]>>}

\* name and output of the catalog recipes; two recipes share the name ax
CatalogNamesAndOutputs ==
  {<<ax, BirchPlank>>, <<ax, Coal>>, <<Ax, BirchPlank>>, <<Bow, BirchPlank>>}

CatalogRecipes ==
  {[name |-> no[1], output |-> no[2],
    requirements |-> [profession |-> p,
                     materials |-> <<[name |-> WoodScrap, amount |-> 1]>>,
                     service |-> <<>>]] :
     no \in CatalogNamesAndOutputs, p \in CatalogProfessions}

RECURSIVE Catalogs(_)
Catalogs(n) ==
  IF n = 0 THEN {<<>>}
  ELSE Catalogs(n - 1)
       \cup {Append(rs, r) : rs \in {l \in Catalogs(n - 1) : Len(l) = n - 1},
                             r \in CatalogRecipes}

InitGroup ==
  /\ recipes \in Catalogs(MaxCatalog)
  /\ sortedGroupedRecipes = NotComputed
  /\ SKILL_LEVELS = Table(1, NoSteps)
  /\ characterData = [skills |-> NoSkills]
  /\ recipe = DefaultRecipe
  /\ inventory = <<>>
  /\ craftingTimes = NoCall
  /\ xpLog = <<>>
  /\ IdleName /\ IdleAgg
  /\ IdleRest

Group ==
  /\ sortedGroupedRecipes.status = "none"
  /\ sortedGroupedRecipes' = sortedGroupedRecipesOf(recipes)
  /\ UNCHANGED recipes
  /\ UNCHANGED <<SKILL_LEVELS, characterData, recipe, inventory, craftingTimes, xpLog>>
  /\ UNCHANGED <<nameVars, aggVars>>
  /\ UNCHANGED restVars

NextGroup == Group

SpecGroup == InitGroup /\ [][NextGroup]_vars

(***************************************************************************)
(* Claims about the grouping                                               *)
(***************************************************************************)
Sorted == sortedGroupedRecipes.status = "returned"

Groups == sortedGroupedRecipes.value

LevelOf(r) == r.requirements.profession[1].level

\* position of a name in the order of the UTF-16 code units
CodeUnitRank(name) ==
  CASE name = Ax -> 1
    [] name = Bow -> 2
    [] name = ax -> 3

\* position of a name in the alphabetical order of the collation
CollationRank(name) ==
  CASE name = ax -> 1
    [] name = Ax -> 2
    [] name = Bow -> 3

\* C18 as stated: in each group adjacent recipes a, b have level(a) < level(b),
\* or equal levels and name(a) <= name(b) in the case-sensitive lexicographic
\* comparison.
C18_OrderedByLevelThenCodeUnits ==
  Sorted =>
    \A g \in 1..Len(Groups) :
      \A i \in 1..(Len(Groups[g].recipes) - 1) :
        LET a == Groups[g].recipes[i]
            b == Groups[g].recipes[i + 1]
        IN \/ LevelOf(a) < LevelOf(b)
           \/ /\ LevelOf(a) = LevelOf(b)
              /\ CodeUnitRank(a.name) <= CodeUnitRank(b.name)

\* C18 amended: in each group adjacent recipes a, b have level(a) < level(b),
\* or equal levels and name(a) <= name(b) in the order of localeCompare:
\* alphabetical regardless of case, lowercase first among names that differ
\* in case only.
C18_OrderedByLevelThenCollation ==
  Sorted =>
    \A g \in 1..Len(Groups) :
      \A i \in 1..(Len(Groups[g].recipes) - 1) :
        LET a == Groups[g].recipes[i]
            b == Groups[g].recipes[i + 1]
        IN \/ LevelOf(a) < LevelOf(b)
           \/ /\ LevelOf(a) = LevelOf(b)
              /\ CollationRank(a.name) <= CollationRank(b.name)

CarpentryRecipe(name, output, level) ==
  [name |-> name, output |-> output,
   requirements |-> [profession |-> <<[name |-> Carpentry, level |-> level]>>,
                     materials |-> <<[name |-> WoodScrap, amount |-> 1]>>,
                     service |-> <<>>]]

\* Bow, Ax, ax of level 1 and in this catalog order end as ax, Ax, Bow
C18_Witness ==
  /\ Sorted
  /\ recipes = <<CarpentryRecipe(Bow, BirchPlank, 1),
                 CarpentryRecipe(Ax, BirchPlank, 1),
                 CarpentryRecipe(ax, BirchPlank, 1)>>
  /\ Groups = <<[profession |-> Carpentry,
                 recipes |-> <<CarpentryRecipe(ax, BirchPlank, 1),
                               CarpentryRecipe(Ax, BirchPlank, 1),
                               CarpentryRecipe(Bow, BirchPlank, 1)>>]>>

\* the recipes of a sequence with the profession, level and name of r
SameKeyAs(r, rs) ==
  LET same(x) == /\ x.requirements.profession = r.requirements.profession
                 /\ x.name = r.name
  IN SelectSeq(rs, same)

\* C19: recipes of a group with equal level and equal name keep their catalog
\* order, and sorting a sorted group again returns the same sequence.
C19_StableAndIdempotent ==
  Sorted =>
    \A g \in 1..Len(Groups) :
      /\ \A i \in 1..Len(Groups[g].recipes) :
           SameKeyAs(Groups[g].recipes[i], Groups[g].recipes)
             = SameKeyAs(Groups[g].recipes[i], recipes)
      /\ sortRecipes(Groups[g].recipes) = Groups[g].recipes

\* the two recipes named ax move before Bow and keep their order
C19_Witness ==
  /\ Sorted
  /\ recipes = <<CarpentryRecipe(Bow, BirchPlank, 1),
                 CarpentryRecipe(ax, Coal, 1),
                 CarpentryRecipe(ax, BirchPlank, 1)>>
  /\ Groups = <<[profession |-> Carpentry,
                 recipes |-> <<CarpentryRecipe(ax, Coal, 1),
                               CarpentryRecipe(ax, BirchPlank, 1),
                               CarpentryRecipe(Bow, BirchPlank, 1)>>]>>

HasProfessionlessRecipe ==
  \E i \in 1..Len(recipes) : recipes[i].requirements.profession = <<>>

WithProfession(r) == r.requirements.profession # <<>>

\* C20: grouping a catalog with a recipe without a profession requirement
\* does not fail, and the other recipes are grouped as usual.
C20_ProfessionlessRecipeGrouped ==
  (sortedGroupedRecipes.status # "none" /\ HasProfessionlessRecipe) =>
    /\ Sorted
    /\ \A g \in 1..Len(sortedGroupedRecipesOf(SelectSeq(recipes, WithProfession)).value) :
         sortedGroupedRecipesOf(SelectSeq(recipes, WithProfession)).value[g]
           \in {Groups[h] : h \in 1..Len(Groups)}

RECURSIVE SumOfGroupSizes(_)
SumOfGroupSizes(groups) ==
  IF groups = <<>> THEN 0
  ELSE Len(Head(groups).recipes) + SumOfGroupSizes(Tail(groups))

\* how often r occurs in a sequence of recipes
Occurrences(r, rs) == Cardinality({i \in 1..Len(rs) : rs[i] = r})

RECURSIVE OccurrencesInGroups(_, _)
OccurrencesInGroups(r, groups) ==
  IF groups = <<>> THEN 0
  ELSE Occurrences(r, Head(groups).recipes) + OccurrencesInGroups(r, Tail(groups))

\* the groups partition the catalog by profession name
IsPartition ==
  /\ \A g \in 1..Len(Groups) :
       /\ Groups[g].recipes # <<>>
       /\ \A i \in 1..Len(Groups[g].recipes) :
            Groups[g].recipes[i].requirements.profession # <<>>
              /\ Groups[g].recipes[i].requirements.profession[1].name
                   = Groups[g].profession
  /\ \A g, h \in 1..Len(Groups) : g # h => Groups[g].profession # Groups[h].profession
  /\ \A i \in 1..Len(recipes) :
       OccurrencesInGroups(recipes[i], Groups) = Occurrences(recipes[i], recipes)
  /\ SumOfGroupSizes(Groups) = Len(recipes)

\* C21: the grouping is a partition of the catalog: every recipe of the
\* catalog is once in the group keyed by its profession name, no group is
\* empty and the group sizes sum to the catalog size.
C21_GroupingIsPartition ==
  sortedGroupedRecipes.status # "none" => (Sorted /\ IsPartition)

\* where the grouping returns, its groups partition the catalog
PartitionWhereGrouped == Sorted => IsPartition

(***************************************************************************)
(* Claims about the service requirement                                    *)
(***************************************************************************)
\* the evaluator on the recipes of at most one material
InitService ==
  /\ InitEval
  /\ Len(recipe.requirements.materials) <= 1

SpecService == InitService /\ [][NextEval]_vars

\* no service, the recipe's facility, another facility
ServiceVariants == Services \cup {<<Carpentry>>}

\* C25: recipes that differ only in requirements.service get the same
\* evaluator result for every inventory and skill mapping.
C25_ServiceIrrelevant ==
  Evaluated =>
    \A s \in ServiceVariants :
      calculateCraftingTimes([recipe EXCEPT !.requirements.service = s],
                             inventory)
        = craftingTimes

\* a craftable recipe that names a service
C25_Witness ==
  /\ Evaluated
  /\ recipe.requirements.service = <<Sawmill>>
  /\ craftingTimes.status = "returned"
  /\ craftingTimes.canCraftNormal
  /\ craftingTimes.normal = Num(1)

\* C28: every aggregated entry has hasFine true exactly when its fineQuantity
\* is greater than 0, in whatever order the normal and fine keys of the
\* material are met.
C28_HasFineIffFineQuantity ==
  Aggregated =>
    \A i \in 1..Len(inventoryItems.value) :
      inventoryItems.value[i].hasFine <=> inventoryItems.value[i].fineQuantity > 0

(***************************************************************************)
(* Specification of a recomputation pass: at mount the catalog is grouped  *)
(* and sorted, the character aggregated and every recipe evaluated; a      *)
(* change of the toggle runs recipesWithCraftingInfo again.                *)
(***************************************************************************)
PassRecipes ==
  {[name |-> n, output |-> BirchPlank,
    requirements |-> [profession |-> p,
                      materials |-> <<[name |-> WoodScrap, amount |-> 1]>>,
                      service |-> <<>>]] :
     n \in {ax, Bow}, p \in CatalogProfessions}

RECURSIVE PassCatalogs(_)
PassCatalogs(n) ==
  IF n = 0 THEN {<<>>}
  ELSE PassCatalogs(n - 1)
       \cup {Append(rs, r) : rs \in {l \in PassCatalogs(n - 1) : Len(l) = n - 1},
                             r \in PassRecipes}

PassInventories ==
  {<<>>,
   <<[key |-> wood_scrap, quantity |-> 1]>>,
   <<[key |-> wood_scrap_fine, quantity |-> 1]>>}

PassCharacters ==
  {[skills |-> s, inventory |-> inv, bank |-> b] :
     s \in {NoSkills, [k \in {carpentry} |-> 1]},
     inv \in PassInventories,
     b \in {<<>>, << <<[key |-> wood_scrap, quantity |-> 1]>> >>}}

InitPass ==
  /\ recipes \in PassCatalogs(MaxPassCatalog)
  /\ characterData \in PassCharacters
  /\ SKILL_LEVELS = Table(1, NoSteps)
  /\ showOnlyCraftable = FALSE
  /\ sortedGroupedRecipes = NotComputed
  /\ inventoryItems = NotComputed
  /\ recipesWithCraftingInfo = NotComputed
  /\ recipe = DefaultRecipe
  /\ inventory = <<>>
  /\ craftingTimes = NoCall
  /\ xpLog = <<>>
  /\ IdleName /\ IdleImport /\ IdleScrape

\* the reactive statements in their order at mount; a statement that throws
\* ends the initialisation
Mount ==
  /\ sortedGroupedRecipes.status = "none"
  /\ sortedGroupedRecipes' = sortedGroupedRecipesOf(recipes)
  /\ recipes' = catalogAfterGrouping(recipes)
  /\ IF sortedGroupedRecipesOf(recipes).status = "threw"
     THEN UNCHANGED <<inventoryItems, recipesWithCraftingInfo>>
     ELSE /\ inventoryItems' = inventoryItemsOf(characterData)
          /\ recipesWithCraftingInfo' =
               Computed(recipesWithCraftingInfoOf(
                          sortedGroupedRecipesOf(recipes).value,
                          inventoryItemsOf(characterData).value,
                          showOnlyCraftable))
  /\ UNCHANGED <<SKILL_LEVELS, characterData, recipe, inventory, craftingTimes, xpLog>>
  /\ UNCHANGED <<showOnlyCraftable, nameVars, importVars, scrapeVars>>

\* bind:checked={showOnlyCraftable}, then recipesWithCraftingInfo runs again
ToggleCraftable ==
  /\ recipesWithCraftingInfo.status = "returned"
  /\ showOnlyCraftable' = ~showOnlyCraftable
  /\ recipesWithCraftingInfo' =
       Computed(recipesWithCraftingInfoOf(sortedGroupedRecipes.value,
                                          inventoryItems.value,
                                          showOnlyCraftable'))
  /\ sortedGroupedRecipes' =
       Computed(groupsAfterDisplay(sortedGroupedRecipes.value,
                                   inventoryItems.value,
                                   showOnlyCraftable'))
  /\ UNCHANGED <<SKILL_LEVELS, characterData, recipe, inventory, craftingTimes, xpLog>>
  /\ UNCHANGED <<recipes, inventoryItems, nameVars, importVars, scrapeVars>>

NextPass == Mount \/ ToggleCraftable

SpecPass == InitPass /\ [][NextPass]_vars

(***************************************************************************)
(* Claims about the recomputation pass and the craftable-only filter       *)
(***************************************************************************)
Displayed == recipesWithCraftingInfo.value

\* the displayed recipes are those of a pass from the inputs alone
PassResultIsFresh ==
  recipesWithCraftingInfo.status = "returned" =>
    recipesWithCraftingInfo
      = Computed(recipesWithCraftingInfoOf(
                   sortedGroupedRecipesOf(recipes).value,
                   inventoryItemsOf(characterData).value,
                   showOnlyCraftable))

StripInfo(info) ==
  [name |-> info.name, output |-> info.output, requirements |-> info.requirements]

RECURSIVE HeldIn(_, _)
HeldIn(es, key) ==
  IF es = <<>> THEN 0
  ELSE (IF Head(es).key = key THEN Head(es).quantity ELSE 0) + HeldIn(Tail(es), key)

\* the level the character has in the profession of r
LevelIn(r) ==
  LET key == CASE r.requirements.profession[1].name = Carpentry -> carpentry
               [] r.requirements.profession[1].name = Smithing -> smithing
  IN LevelFor(IF key \in DOMAIN characterData.skills
              THEN characterData.skills[key] ELSE 0)

\* r needs one Wood Scrap: it is craftable when the level is reached and a
\* normal or a fine Wood Scrap is held
ShouldDisplay(r) ==
  showOnlyCraftable =>
    /\ LevelIn(r) >= LevelOf(r)
    /\ HeldIn(AllRawEntries, wood_scrap) >= 1
         \/ HeldIn(AllRawEntries, wood_scrap_fine) >= 1

\* C29: with the toggle on a recipe is displayed exactly when its missingLevel
\* is 0 and normal > 0 or fine > 0, with the toggle off every recipe is
\* displayed; the displayed recipes keep the order of the sorted group and
\* the groups are the same.
C29_CraftableFilter ==
  recipesWithCraftingInfo.status = "returned" =>
    /\ Len(Displayed) = Len(Groups)
    /\ \A g \in 1..Len(Groups) :
         /\ Displayed[g].profession = Groups[g].profession
         /\ [i \in 1..Len(Displayed[g].recipes) |-> StripInfo(Displayed[g].recipes[i])]
              = SelectSeq(Groups[g].recipes, ShouldDisplay)
         /\ showOnlyCraftable =>
              \A i \in 1..Len(Displayed[g].recipes) :
                /\ Displayed[g].recipes[i].craftingTimes.missingLevel = 0
                /\ GreaterThanZero(Displayed[g].recipes[i].craftingTimes.normal)
                     \/ GreaterThanZero(Displayed[g].recipes[i].craftingTimes.fine)

\* of ax (level 1) and Bow (level 2) a character of level 1 with one fine
\* Wood Scrap is shown ax only
C29_Witness ==
  /\ recipesWithCraftingInfo.status = "returned"
  /\ showOnlyCraftable
  /\ characterData.skills = NoSkills
  /\ characterData.inventory = <<[key |-> wood_scrap_fine, quantity |-> 1]>>
  /\ characterData.bank = <<>>
  /\ recipes = <<CarpentryRecipe(Bow, BirchPlank, 2), CarpentryRecipe(ax, BirchPlank, 1)>>
  /\ Len(Displayed) = 1
  /\ Len(Displayed[1].recipes) = 1
  /\ Displayed[1].recipes[1].name = ax
  /\ Displayed[1].recipes[1].craftingTimes.fine = Num(1)
  /\ Displayed[1].recipes[1].craftingTimes.normal = Num(0)

(***************************************************************************)
(* Specification of import, reset and reload, from a page opened on an     *)
(* empty storage.                                                          *)
(***************************************************************************)
Op(op, status) == [op |-> op, status |-> status]

InitImport ==
  /\ localStorage = <<>>
  /\ characterData = loadCharacter(<<>>)
  /\ showImportDialog = FALSE
  /\ importText = ""
  /\ importError = ""
  /\ lastOp = Op("none", "returned")
  /\ beforeReload = <<>>
  /\ lastAccepted = <<>>
  /\ SKILL_LEVELS = Table(1, NoSteps)
  /\ recipe = DefaultRecipe
  /\ inventory = <<>>
  /\ craftingTimes = NoCall
  /\ xpLog = <<>>
  /\ IdleName /\ IdleAgg /\ IdleGroup /\ IdlePass /\ IdleScrape

ImportFrame ==
  /\ UNCHANGED <<SKILL_LEVELS, recipe, inventory, craftingTimes, xpLog>>
  /\ UNCHANGED <<nameVars, aggVars, groupVars, passVars, scrapeVars>>

OpenImportDialog ==
  /\ showImportDialog' = TRUE
  /\ lastOp' = Op("open", "returned")
  /\ UNCHANGED <<characterData, localStorage, importText, importError,
                 beforeReload, lastAccepted>>
  /\ ImportFrame

CloseImportDialog ==
  /\ showImportDialog
  /\ showImportDialog' = FALSE
  /\ lastOp' = Op("close", "returned")
  /\ UNCHANGED <<characterData, localStorage, importText, importError,
                 beforeReload, lastAccepted>>
  /\ ImportFrame

TypeImportText ==
  /\ showImportDialog
  /\ \E text \in ImportTexts : importText' = text
  /\ lastOp' = Op("type", "returned")
  /\ UNCHANGED <<characterData, localStorage, showImportDialog, importError,
                 beforeReload, lastAccepted>>
  /\ ImportFrame

ImportCharacter ==
  /\ showImportDialog
  /\ \E quotaExceeded \in BOOLEAN :
       LET after == importCharacter(characterData, localStorage,
                                    showImportDialog, importText, quotaExceeded)
       IN /\ characterData' = after.characterData
          /\ localStorage' = after.localStorage
          /\ showImportDialog' = after.showImportDialog
          /\ importText' = after.importText
          /\ importError' = after.importError
          /\ lastOp' = Op("import", after.status)
          /\ lastAccepted' = IF after.importError = ""
                             THEN <<after.characterData>>
                             ELSE lastAccepted
  /\ UNCHANGED beforeReload
  /\ ImportFrame

ResetCharacter ==
  /\ characterData' = resetCharacter(characterData, localStorage).characterData
  /\ localStorage' = resetCharacter(characterData, localStorage).localStorage
  /\ lastOp' = Op("reset", "returned")
  /\ lastAccepted' = <<>>
  /\ UNCHANGED <<showImportDialog, importText, importError, beforeReload>>
  /\ ImportFrame

\* the page is loaded again: its script runs on the stored character
Reload ==
  /\ beforeReload' = <<characterData>>
  /\ characterData' = loadCharacter(localStorage)
  /\ showImportDialog' = FALSE
  /\ importText' = ""
  /\ importError' = ""
  /\ lastOp' = Op("reload", "returned")
  /\ UNCHANGED <<localStorage, lastAccepted>>
  /\ ImportFrame

NextImport ==
  \/ OpenImportDialog
  \/ CloseImportDialog
  \/ TypeImportText
  \/ ImportCharacter
  \/ ResetCharacter
  \/ Reload

SpecImport == InitImport /\ [][NextImport]_vars

(***************************************************************************)
(* Claims about import, reset and reload                                   *)
(***************************************************************************)
\* the texts that are not JSON, and those of records that importCharacter's
\* validation refuses
RejectedTexts ==
  {TextEmpty, TextGarbage, TextNull, TextNoInventory, TextSkillsString,
   TextInventoryZero}

\* C22: an import of a text that is not valid JSON or of a record failing the
\* validation sets importError to a message and leaves characterData, the
\* stored character, the dialog and the import text as they were, and no
\* exception leaves importCharacter.
C22_RejectedImportChangesOnlyError ==
  [][(lastOp'.op = "import" /\ importText \in RejectedTexts) =>
       /\ importError' # ""
       /\ characterData' = characterData
       /\ localStorage' = localStorage
       /\ showImportDialog' = showImportDialog
       /\ importText' = importText
       /\ lastOp'.status = "returned"]_vars

\* after the import of a carpenter, a record without inventory is refused
C22_Witness ==
  /\ lastOp = Op("import", "returned")
  /\ importText = TextNoInventory
  /\ importError = ErrorInventory
  /\ characterData = Carpenter
  /\ localStorage = <<TextCarpenter>>
  /\ showImportDialog

IsMapping(value) == value.type = "object"

\* C23: the character in effect always has skills and inventory that are
\* key-value mappings.
C23_CharacterWellFormed ==
  /\ IsMapping(characterData)
  /\ IsMapping(getProperty(characterData, "skills"))
  /\ IsMapping(getProperty(characterData, "inventory"))

ReloadAfterReset ==
  /\ lastOp.op = "reload"
  /\ lastAccepted = <<>>
  /\ localStorage = <<>>
  /\ characterData = character

(***************************************************************************)
(* Specification of the scraping script: one run of generateRecipesJson on *)
(* a wiki table drawn in Init.  The tasks of the rows advance in any order.*)
(***************************************************************************)
\* a row of another table, or a header row
HeaderRow ==
  [cells |-> 2, output |-> <<>>, name |-> <<>>, iconSrc |-> FALSE,
   profession |-> <<>>, level |-> 1, professionIconSrc |-> FALSE,
   service |-> <<>>, materials |-> <<>>, faulty |-> FALSE]

\* a 10-cell row without a link in its name cell
NoOutputRow ==
  [cells |-> 10, output |-> <<>>, name |-> Coal, iconSrc |-> TRUE,
   profession |-> <<>>, level |-> 1, professionIconSrc |-> FALSE,
   service |-> <<>>,
   materials |-> <<[name |-> WoodScrap, amount |-> 1, iconSrc |-> FALSE]>>,
   faulty |-> FALSE]

\* a 10-cell row with an icon and an output, of which no material link has text
NoNamedMaterialRow ==
  [cells |-> 10, output |-> Stone, name |-> Stone, iconSrc |-> TRUE,
   profession |-> <<>>, level |-> 1, professionIconSrc |-> FALSE,
   service |-> <<>>,
   materials |-> <<[name |-> <<>>, amount |-> 1, iconSrc |-> TRUE]>>,
   faulty |-> FALSE]

\* a recipe row with the icons of its output and of its profession
PlankRow ==
  [cells |-> 10, output |-> BirchPlank, name |-> CreateABirchPlank,
   iconSrc |-> TRUE, profession |-> <<Carpentry>>, level |-> 1,
   professionIconSrc |-> TRUE, service |-> <<BasicSawmill>>,
   materials |-> <<[name |-> WoodScrap, amount |-> 5, iconSrc |-> FALSE]>>,
   faulty |-> FALSE]

\* a recipe row without icons other than that of its second material link
CoalRow ==
  [cells |-> 10, output |-> Coal, name |-> Coal, iconSrc |-> FALSE,
   profession |-> <<>>, level |-> 1, professionIconSrc |-> FALSE,
   service |-> <<>>,
   materials |-> <<[name |-> <<>>, amount |-> 1, iconSrc |-> FALSE],
                   [name |-> WoodScrap, amount |-> 2, iconSrc |-> FALSE]>>,
   faulty |-> FALSE]

\* a recipe row with the icon of its material
HatchetRow ==
  [cells |-> 10, output |-> BasicHatchet, name |-> MakeABasicHatchet,
   iconSrc |-> FALSE, profession |-> <<Crafting>>, level |-> 1,
   professionIconSrc |-> FALSE, service |-> <<>>,
   materials |-> <<[name |-> Stone, amount |-> 2, iconSrc |-> TRUE]>>,
   faulty |-> FALSE]

\* a row with an icon, of which the processing throws after the download
FaultyRow ==
  [cells |-> 10, output |-> WoodenStick, name |-> WoodenStick,
   iconSrc |-> TRUE, profession |-> <<>>, level |-> 1,
   professionIconSrc |-> FALSE, service |-> <<>>,
   materials |-> <<[name |-> WoodScrap, amount |-> 1, iconSrc |-> FALSE]>>,
   faulty |-> TRUE]

RowKinds ==
  {HeaderRow, NoOutputRow, NoNamedMaterialRow, PlankRow, CoalRow, HatchetRow,
   FaultyRow}

WikiTables(n) == UNION {[1..k -> RowKinds] : k \in 0..n}

InitScrape ==
  /\ wikiRows \in WikiTables(MaxRows)
  /\ pc = "idle"
  /\ tasks = <<>>
  /\ completed = <<>>
  /\ svgs = [materials |-> {}, professions |-> {}]
  /\ caught = FALSE
  /\ fetchResult = NotComputed
  /\ recipesJson = <<>>
  /\ savedFiles = {}
  /\ SKILL_LEVELS = Table(1, NoSteps)
  /\ characterData = [skills |-> NoSkills]
  /\ recipe = DefaultRecipe
  /\ inventory = <<>>
  /\ craftingTimes = NoCall
  /\ xpLog = <<>>
  /\ IdleName /\ IdleAgg /\ IdleGroup /\ IdlePass /\ IdleImport

ScrapeFrame ==
  /\ UNCHANGED <<SKILL_LEVELS, characterData, recipe, inventory, craftingTimes,
                 xpLog>>
  /\ UNCHANGED <<nameVars, aggVars, groupVars, passVars, importVars>>
  /\ UNCHANGED wikiRows

\* the rows of which the task has ended, in the order of the rows
RECURSIVE endedFrom(_, _)
endedFrom(ts, i) ==
  IF i > Len(ts) THEN <<>>
  ELSE (IF ts[i].status # "pending" THEN <<i>> ELSE <<>>) \o endedFrom(ts, i + 1)

\* the page is fetched and parsed; rows.map starts the task of every row,
\* which runs up to its first await
FetchPage ==
  /\ pc = "idle"
  /\ tasks' = [i \in 1..Len(wikiRows) |-> startTask(wikiRows[i])]
  /\ completed' = endedFrom(tasks', 1)
  /\ pc' = "rows"
  /\ UNCHANGED <<svgs, caught, fetchResult, recipesJson, savedFiles>>
  /\ ScrapeFrame

\* fetching or parsing the page throws
FetchThrows ==
  /\ pc = "idle"
  /\ caught' = TRUE
  /\ fetchResult' = Computed(fallback(svgs))
  /\ pc' = "returned"
  /\ UNCHANGED <<tasks, completed, svgs, recipesJson, savedFiles>>
  /\ ScrapeFrame

\* a download of the task of row i ends, with the icon (got) or with null,
\* and the task runs up to its next await or to its end; the rejection of a
\* task is handled before any other task continues
DownloadEnds(i, got) ==
  /\ pc # "idle"
  /\ tasks[i].status = "pending"
  /\ ~(pc = "rows" /\ \E j \in 1..Len(tasks) : tasks[j].status = "rejected")
  /\ svgs' = IF got THEN svgsWith(svgs, Head(tasks[i].left)) ELSE svgs
  /\ tasks' = [tasks EXCEPT ![i] = afterDownload(@, wikiRows[i])]
  /\ completed' = IF tasks'[i].status # "pending" THEN Append(completed, i)
                  ELSE completed
  /\ UNCHANGED <<pc, caught, fetchResult, recipesJson, savedFiles>>
  /\ ScrapeFrame

\* Promise.all resolves and fetchRecipesFromWiki returns
AllResolved ==
  /\ pc = "rows"
  /\ \A i \in 1..Len(tasks) : tasks[i].status = "resolved"
  /\ fetchResult' = Computed([recipes |-> recipesOfResults(tasks, completed),
                              svgs |-> svgs])
  /\ pc' = "returned"
  /\ UNCHANGED <<tasks, completed, svgs, caught, recipesJson, savedFiles>>
  /\ ScrapeFrame

\* Promise.all rejects with the rejection of a task and the catch block runs
RowRejected ==
  /\ pc = "rows"
  /\ \E i \in 1..Len(tasks) : tasks[i].status = "rejected"
  /\ caught' = TRUE
  /\ fetchResult' = Computed(fallback(svgs))
  /\ pc' = "returned"
  /\ UNCHANGED <<tasks, completed, svgs, recipesJson, savedFiles>>
  /\ ScrapeFrame

\* generateRecipesJson writes recipes.json and, if there is an icon, the
\* icon files
WriteFiles ==
  /\ pc = "returned"
  /\ recipesJson' = <<fetchResult.value.recipes>>
  /\ savedFiles' = IF fetchResult.value.svgs.materials # {}
                      \/ fetchResult.value.svgs.professions # {}
                   THEN saveSVGsToFile(fetchResult.value.svgs)
                   ELSE {}
  /\ pc' = "written"
  /\ UNCHANGED <<tasks, completed, svgs, caught, fetchResult>>
  /\ ScrapeFrame

NextScrape ==
  \/ FetchPage
  \/ FetchThrows
  \/ \E i \in 1..Len(tasks), got \in BOOLEAN : DownloadEnds(i, got)
  \/ AllResolved
  \/ RowRejected
  \/ WriteFiles

SpecScrape == InitScrape /\ [][NextScrape]_vars

(***************************************************************************)
(* Claims about the scraping script.                                       *)
(***************************************************************************)
NoIcons == [materials |-> {}, professions |-> {}]

\* C26: if fetching or parsing the page throws, or the processing of a row
\* throws, fetchRecipesFromWiki returns exactly the two example recipes with
\* no icons, whatever was scraped before, and generateRecipesJson writes
\* recipes.json with them and saves no icon file.
C26_FallbackOnThrow ==
  caught =>
    /\ fetchResult = Computed([recipes |-> ExampleRecipes, svgs |-> NoIcons])
    /\ pc = "written" =>
         /\ recipesJson = <<ExampleRecipes>>
         /\ savedFiles = {}

\* the task of a later row threw after a recipe and an icon had been scraped
C26_Witness ==
  /\ caught
  /\ pc = "written"
  /\ recipesJson = <<ExampleRecipes>>
  /\ svgs.materials # {}
  /\ \E i \in 1..Len(tasks) : tasks[i].status = "resolved" /\ tasks[i].value # <<>>
  /\ \E i \in 1..Len(tasks) : tasks[i].status = "rejected"

\* a row for which the script is to emit a recipe
Qualifies(row) ==
  /\ row.cells = 10
  /\ row.output # <<>>
  /\ \E i \in 1..Len(row.materials) : row.materials[i].name # <<>>

\* the catalog lists, in the order of the rows, one recipe for each
\* qualifying row and nothing else
CatalogFollowsRows ==
  LET catalog == recipesJson[1]
      qualifying == SelectSeq(wikiRows, Qualifies)
  IN /\ Len(catalog) = Len(qualifying)
     /\ \A i \in 1..Len(catalog) :
          /\ catalog[i].output = qualifying[i].output
          /\ catalog[i].name = qualifying[i].name

\* C27 as stated: the generated catalog lists the recipes of exactly the
\* qualifying rows, in the order of the rows.
C27_CatalogFollowsRows == pc = "written" => CatalogFollowsRows

\* C27: when neither the fetch nor the processing of a row throws, the
\* generated catalog lists the recipes of exactly the qualifying rows, in the
\* order of the rows, whatever the order in which the tasks of the rows ended.
C27_CatalogFollowsRowsUnlessCaught ==
  (pc = "written" /\ ~caught) => CatalogFollowsRows

\* the task of the second row ended before that of the first, and a row in
\* between was skipped
C27_Witness ==
  /\ pc = "written"
  /\ ~caught
  /\ wikiRows = <<PlankRow, NoNamedMaterialRow, CoalRow>>
  /\ completed = <<3, 2, 1>>
  /\ Len(recipesJson[1]) = 2
  /\ recipesJson[1][1].output = BirchPlank
  /\ recipesJson[1][2].output = Coal

====
